---- MODULE Spec2Model ----
(***************************************************************************)
(* yomitore: the training statistics aggregate (src/src/stats.rs), the     *)
(* Evaluate action of the main loop that records and saves an attempt      *)
(* (src/src/main.rs), the report (src/src/reports.rs) and the parser of    *)
(* the evaluation text (src/src/api_client.rs).                            *)
(*                                                                         *)
(* Time is counted in ticks, TicksPerDay ticks to a day, so that the       *)
(* truncation of chrono's Duration::num_days is part of the model.         *)
(***************************************************************************)
EXTENDS Integers, Sequences, FiniteSets, TLC

(* ---- program constants ------------------------------------------------ *)
BADGE_INTERVAL == 5
MAX_CONSECUTIVE_STREAK == 50
MAX_CUMULATIVE_MILESTONE == 100
PENALTY_DAYS == 3
LEVEL2_REQUIRED_EXP == 10
DEFAULT_REQUIRED_EXP == 5
DAYS_IN_MONTH == 30
MIN_SCORE == 1
MAX_SCORE == 5
U8_MAX == 255
WEEKS_TO_SHOW == 4
OVERLAY_SIZE_PERCENT == 75
OVERLAY_MARGIN == 2
MIN_OVERLAY_WIDTH == 40
MIN_OVERLAY_HEIGHT == 10
U16_MAX == 65535

(* ---- bounds of the model ---------------------------------------------- *)
TicksPerDay == 2
MaxLog == 21
MaxFails == 1
MaxPasses == 105
MaxDays == 6
MaxShortLog == 1
MaxDocPasses == 15
MaxFaults == 1
MaxWeeks == 2
MaxReportDays == 2
MaxReportLog == 2
MaxScoreValue == 10
MaxScoreListLen == 4
MaxTextLen == 2
MaxSummaryLen == 1
MaxLoopLog == 2
MaxRebuildLog == 6
MaxAreaSide == 45
MaxHistoryLog == 106
MaxHistoryFails == 1

\* the clock stops one tick after MaxDays days
MaxNow == MaxDays * TicksPerDay + 1

(* ---- Option<T> -------------------------------------------------------- *)
None == << >>
Some(x) == << x >>
IsSome(o) == o # << >>
Unwrap(o) == o[1]

Max(a, b) == IF a >= b THEN a ELSE b
Min(a, b) == IF a <= b THEN a ELSE b

(* ---- data ------------------------------------------------------------- *)
TrainingResult(t, passed, evaluation) ==
    [timestamp |-> t, passed |-> passed, evaluation |-> evaluation]

ConsecutiveStreak(n) == [variant |-> "ConsecutiveStreak", n |-> n]
CumulativeMilestone(n) == [variant |-> "CumulativeMilestone", n |-> n]

Badge(badge_type, earned_at) ==
    [badge_type |-> badge_type, earned_at |-> earned_at]

BuddyDefault == [level |-> 1, exp |-> 0]

TrainingStatsNew ==
    [results |-> << >>, badges |-> << >>, current_streak |-> 0,
     buddy |-> BuddyDefault, last_training_date |-> None]

(* ---- the state -------------------------------------------------------- *)
VARIABLES
    stats,        \* app.stats, the in-memory aggregate
    disk,         \* stats.json: None, or Some(document)
    now,          \* Local::now(), in ticks
    op,           \* the operation that produced this state
    idle,         \* the idle period since the latest append: the buddy level
                  \* right after that append, whether its save succeeded, and
                  \* whether every load since then could read stats.json
    faults,       \* number of failed file operations so far
    report,       \* the function call whose result is on display, if any
    app,          \* the other fields of App
    pc            \* where main stands: at an await point or out of the loop

vars == << stats, disk, now, op, idle, faults, report, app, pc >>

\* nothing has been computed for display
NoReport == [call |-> "none"]

\* App::default without the aggregate; the texts the program writes itself
\* (status messages, the placeholder of original_text) are single words
AppDefault ==
    [is_editing |-> FALSE,
     original_text |-> << "Authenticating" >>,
     evaluation_text |-> << >>,
     evaluation_passed |-> FALSE,
     status_message |-> "Select character count and press Enter to start",
     should_quit |-> FALSE,
     text_area |-> << >>,
     is_evaluating |-> FALSE,
     show_evaluation_overlay |-> FALSE,
     view_mode |-> "Menu"]

(* ---- buddy ------------------------------------------------------------ *)
RequiredExp(level) ==
    IF level = 2 THEN LEVEL2_REQUIRED_EXP ELSE DEFAULT_REQUIRED_EXP

AddBuddyExpCarries(buddy) ==
    LET exp == buddy.exp + 1
        carried == exp - RequiredExp(buddy.level)
    IN  IF exp >= RequiredExp(buddy.level)
        THEN IF carried >= RequiredExp(buddy.level + 1)
             THEN [level |-> buddy.level + 2, exp |-> 0]
             ELSE [level |-> buddy.level + 1, exp |-> 0]
        ELSE [level |-> buddy.level, exp |-> exp]

AddBuddyExpSkipLevel2Rule(buddy) ==
    LET exp == buddy.exp + 1
    IN  IF exp >= DEFAULT_REQUIRED_EXP
        THEN [level |-> buddy.level + 1, exp |-> 0]
        ELSE [level |-> buddy.level, exp |-> exp]

AddBuddyExp(buddy) ==
    LET exp == buddy.exp + 1
    IN  IF exp >= RequiredExp(buddy.level)
        THEN [level |-> buddy.level + 1, exp |-> 0]
        ELSE [level |-> buddy.level, exp |-> exp]

\* chrono Duration::num_days: whole days, truncated toward zero
NumDays(ticks) ==
    IF ticks >= 0 THEN ticks \div TicksPerDay ELSE -((-ticks) \div TicksPerDay)

PenaltyLevelUnclamped(level) == level - 1

PenaltyLevel(level) == IF level > 1 THEN level - 1 ELSE level

PenaltyAppliesEarly(last_date, t) == NumDays(t - last_date) >= PENALTY_DAYS - 1

PenaltyApplies(last_date, t) == NumDays(t - last_date) >= PENALTY_DAYS

CheckBuddyPenaltyClearsLog(s, t) ==
    IF IsSome(s.last_training_date)
       /\ PenaltyApplies(Unwrap(s.last_training_date), t)
    THEN [s EXCEPT !.buddy = [level |-> PenaltyLevel(s.buddy.level), exp |-> 0],
                   !.last_training_date = Some(t),
                   !.results = << >>]
    ELSE s

CheckBuddyPenaltyKeepsExp(s, t) ==
    IF IsSome(s.last_training_date)
       /\ PenaltyApplies(Unwrap(s.last_training_date), t)
    THEN [s EXCEPT !.buddy = [level |-> PenaltyLevel(s.buddy.level), exp |-> s.buddy.exp],
                   !.last_training_date = Some(t)]
    ELSE s

CheckBuddyPenalty(s, t) ==
    IF IsSome(s.last_training_date)
       /\ PenaltyApplies(Unwrap(s.last_training_date), t)
    THEN [s EXCEPT !.buddy = [level |-> PenaltyLevel(s.buddy.level), exp |-> 0],
                   !.last_training_date = Some(t)]
    ELSE s

(* ---- badges ----------------------------------------------------------- *)
IsMultipleOf(n, m) == n % m = 0

HasBadge(badges, badge_type) ==
    \E i \in 1..Len(badges) : badges[i].badge_type = badge_type

PushIfNewAlways(badges, badge) == Append(badges, badge)

PushIfNew(badges, badge) ==
    IF HasBadge(badges, badge.badge_type) THEN badges ELSE Append(badges, badge)

TotalCorrect(results) ==
    Cardinality({i \in 1..Len(results) : results[i].passed})

AwardOnAppendUncapped(badges, current_streak, total_correct, t) ==
    LET b1 == IF IsMultipleOf(current_streak, BADGE_INTERVAL)
              THEN PushIfNew(badges, Badge(ConsecutiveStreak(current_streak), t))
              ELSE badges
    IN  IF IsMultipleOf(total_correct, BADGE_INTERVAL)
        THEN PushIfNew(b1, Badge(CumulativeMilestone(total_correct), t))
        ELSE b1

AwardOnAppend(badges, current_streak, total_correct, t) ==
    LET b1 == IF IsMultipleOf(current_streak, BADGE_INTERVAL)
                 /\ current_streak <= MAX_CONSECUTIVE_STREAK
              THEN PushIfNew(badges, Badge(ConsecutiveStreak(current_streak), t))
              ELSE badges
    IN  IF IsMultipleOf(total_correct, BADGE_INTERVAL)
           /\ total_correct <= MAX_CUMULATIVE_MILESTONE
        THEN PushIfNew(b1, Badge(CumulativeMilestone(total_correct), t))
        ELSE b1

PassedAppendStreakByTotal(s, t) ==
    LET total_correct == TotalCorrect(s.results)
    IN  [s EXCEPT !.buddy = AddBuddyExp(@),
                  !.current_streak = s.current_streak + 1,
                  !.badges = AwardOnAppend(@, total_correct, total_correct, t)]

\* the branch of add_result_with_evaluation taken when passed
PassedAppend(s, t) ==
    LET streak == s.current_streak + 1
    IN  [s EXCEPT !.buddy = AddBuddyExp(@),
                  !.current_streak = streak,
                  !.badges = AwardOnAppend(@, streak, TotalCorrect(s.results), t)]

FailedAppendKeepsStreak(s) == s

FailedAppendResetsExp(s) ==
    [s EXCEPT !.current_streak = 0, !.buddy = [level |-> s.buddy.level, exp |-> 0]]

FailedAppendClearsBadges(s) == [s EXCEPT !.current_streak = 0, !.badges = << >>]

\* the branch taken when not passed
FailedAppend(s) == [s EXCEPT !.current_streak = 0]

AddResultDateOnlyWhenPassed(s, passed, evaluation, t) ==
    LET pushed == [s EXCEPT !.results = Append(@, TrainingResult(t, passed, evaluation))]
    IN  IF passed
        THEN PassedAppend([pushed EXCEPT !.last_training_date = Some(t)], t)
        ELSE FailedAppend(pushed)

AddResultWithEvaluation(s, passed, evaluation, t) ==
    LET pushed == [s EXCEPT !.results = Append(@, TrainingResult(t, passed, evaluation)),
                            !.last_training_date = Some(t)]
    IN  IF passed THEN PassedAppend(pushed, t) ELSE FailedAppend(pushed)

(* ---- load-time reconciliation ----------------------------------------- *)
RECURSIVE TrailingPassed(_)
TrailingPassed(results) ==
    IF results = << >> \/ ~results[Len(results)].passed
    THEN 0
    ELSE 1 + TrailingPassed(SubSeq(results, 1, Len(results) - 1))

RecalculateStreakKeepsStored(s) ==
    [s EXCEPT !.current_streak = s.current_streak + TrailingPassed(s.results)]

RecalculateStreak(s) == [s EXCEPT !.current_streak = TrailingPassed(s.results)]

RebuildStreakNoReset(current_streak, passed) == current_streak + 1

RebuildStreak(current_streak, passed) ==
    IF passed THEN current_streak + 1 ELSE 0

\* the loop body of rebuild_badges_from_history for results[i]
RECURSIVE RebuildFrom(_, _, _, _, _)
RebuildFrom(results, i, current_streak, total_correct, badges) ==
    IF i > Len(results)
    THEN badges
    ELSE LET result == results[i]
             streak == RebuildStreak(current_streak, result.passed)
         IN  IF result.passed
             THEN LET total == total_correct + 1
                      b1 == IF IsMultipleOf(streak, BADGE_INTERVAL)
                               /\ streak <= MAX_CONSECUTIVE_STREAK
                            THEN PushIfNew(badges,
                                   Badge(ConsecutiveStreak(streak), result.timestamp))
                            ELSE badges
                      b2 == IF IsMultipleOf(total, BADGE_INTERVAL)
                               /\ total <= MAX_CUMULATIVE_MILESTONE
                            THEN PushIfNew(b1,
                                   Badge(CumulativeMilestone(total), result.timestamp))
                            ELSE b1
                  IN  RebuildFrom(results, i + 1, streak, total, b2)
             ELSE RebuildFrom(results, i + 1, streak, total_correct, badges)

RebuildBadgesFromHistoryAppends(s) ==
    [s EXCEPT !.badges = @ \o RebuildFrom(s.results, 1, 0, 0, << >>)]

\* rebuild_badges_from_history starts from the badge list the aggregate holds
RebuildBadgesFromHistory(s) ==
    [s EXCEPT !.badges = RebuildFrom(s.results, 1, 0, 0, s.badges)]

\* TrainingStats::load as used by App::default: a missing file, a read error
\* and a deserialization error all give TrainingStats::new()
LoadStatsReadsAnyway(file, readable, t) ==
    IF ~IsSome(file)
    THEN TrainingStatsNew
    ELSE RebuildBadgesFromHistory(
             CheckBuddyPenalty(RecalculateStreak(Unwrap(file)), t))

LoadStats(file, readable, t) ==
    IF ~IsSome(file) \/ ~readable
    THEN TrainingStatsNew
    ELSE RebuildBadgesFromHistory(
             CheckBuddyPenalty(RecalculateStreak(Unwrap(file)), t))

(* ---- statistics of the report ----------------------------------------- *)
\* DateTime::date_naive: the day a time falls on
DateNaive(t) == t \div TicksPerDay

\* chrono::Duration::weeks(1)
WeekTicks == 7 * TicksPerDay

DailyStats(correct, incorrect) == [correct |-> correct, incorrect |-> incorrect]

WeeklyStats(week_number, correct, incorrect) ==
    [week_number |-> week_number, correct |-> correct, incorrect |-> incorrect]

\* a result dated outside the map gets a bucket of its own
AggregateResultOrInsert(daily_map, result) ==
    LET date == DateNaive(result.timestamp)
        old == IF date \in DOMAIN daily_map THEN daily_map[date] ELSE DailyStats(0, 0)
        new == IF result.passed
               THEN DailyStats(old.correct + 1, old.incorrect)
               ELSE DailyStats(old.correct, old.incorrect + 1)
    IN  [d \in DOMAIN daily_map \cup {date} |-> IF d = date THEN new ELSE daily_map[d]]

\* the body of the aggregation loop of calculate_daily_stats
AggregateResult(daily_map, result) ==
    LET date == DateNaive(result.timestamp)
    IN  IF date \in DOMAIN daily_map
        THEN IF result.passed
             THEN [daily_map EXCEPT ![date].correct = @ + 1]
             ELSE [daily_map EXCEPT ![date].incorrect = @ + 1]
        ELSE daily_map

RECURSIVE AggregateDaily(_, _, _)
AggregateDaily(daily_map, results, i) ==
    IF i > Len(results)
    THEN daily_map
    ELSE AggregateDaily(AggregateResult(daily_map, results[i]), results, i + 1)

CalculateDailyStats(s, days, today) ==
    AggregateDaily([date \in {today - i : i \in 0..(days - 1)} |-> DailyStats(0, 0)],
                   s.results, 1)

\* the number of results with the given outcome and week_start <= timestamp < week_end
CountInWindow(results, week_start, week_end, passed) ==
    Cardinality({i \in 1..Len(results) :
                   /\ results[i].timestamp >= week_start
                   /\ results[i].timestamp < week_end
                   /\ results[i].passed = passed})

CalculateWeeklyStatsEndingNow(s, weeks, t) ==
    [w \in 1..weeks |->
        LET week == w - 1
            week_start == t - (weeks - week) * WeekTicks
            week_end == week_start + WeekTicks
        IN  WeeklyStats(week + 1,
                        CountInWindow(s.results, week_start, week_end, TRUE),
                        CountInWindow(s.results, week_start, week_end, FALSE))]

CalculateWeeklyStats(s, weeks, t) ==
    [w \in 1..weeks |->
        LET week == w - 1
            week_start == t - (weeks - week - 1) * WeekTicks
            week_end == week_start + WeekTicks
        IN  WeeklyStats(week + 1,
                        CountInWindow(s.results, week_start, week_end, TRUE),
                        CountInWindow(s.results, week_start, week_end, FALSE))]

\* get_badges_by_type: the badges of each variant, in the order of the list
GetBadgesByType(s) ==
    << SelectSeq(s.badges, LAMBDA b : b.badge_type.variant = "ConsecutiveStreak"),
       SelectSeq(s.badges, LAMBDA b : b.badge_type.variant = "CumulativeMilestone") >>

\* an f32 value, kept exact as a fraction in lowest terms; the rounding of
\* the division to 24 bits of precision is left out
RECURSIVE Gcd(_, _)
Gcd(a, b) == IF b = 0 THEN a ELSE Gcd(b, a % b)

F32Div(n, d) == [num |-> n \div Gcd(n, d), den |-> d \div Gcd(n, d)]

\* sort_unstable on u8 values
RECURSIVE InsertSorted(_, _)
InsertSorted(sorted, x) ==
    IF sorted = << >> THEN << x >>
    ELSE IF x <= Head(sorted) THEN << x >> \o sorted
    ELSE << Head(sorted) >> \o InsertSorted(Tail(sorted), x)

RECURSIVE SortUnstable(_)
SortUnstable(scores) ==
    IF scores = << >>
    THEN << >>
    ELSE InsertSorted(SortUnstable(Tail(scores)), Head(scores))

CalculateMedianUnsorted(scores) ==
    LET mid == Len(scores) \div 2
    IN  IF Len(scores) % 2 = 1
        THEN F32Div(scores[mid + 1], 1)
        ELSE F32Div(scores[mid] + scores[mid + 1], 2)

\* sorted[mid] of the code is the element mid + 1 of a sequence counted from 1
CalculateMedian(scores) ==
    LET sorted == SortUnstable(scores)
        mid == Len(sorted) \div 2
    IN  IF Len(sorted) % 2 = 1
        THEN F32Div(sorted[mid + 1], 1)
        ELSE F32Div(sorted[mid] + sorted[mid + 1], 2)

RECURSIVE SumScores(_)
SumScores(scores) ==
    IF scores = << >> THEN 0 ELSE Head(scores) + SumScores(Tail(scores))

EvaluationScoreStats(average, median) == [average |-> average, median |-> median]

CalculateScoreStats(scores) ==
    IF scores = << >>
    THEN None
    ELSE Some(EvaluationScoreStats(F32Div(SumScores(scores), Len(scores)),
                                   CalculateMedian(scores)))

EvaluationScores(appropriate, importance, conciseness, accuracy, improvement1, improvement2, improvement3, overall_passed) ==
    [appropriate |-> appropriate, importance |-> importance,
     conciseness |-> conciseness, accuracy |-> accuracy,
     improvement1 |-> improvement1, improvement2 |-> improvement2,
     improvement3 |-> improvement3, overall_passed |-> overall_passed]

EvaluationSummary(count, importance, conciseness, accuracy) ==
    [count |-> count, importance |-> importance,
     conciseness |-> conciseness, accuracy |-> accuracy]

SaturatingSub(a, b) == IF a >= b THEN a - b ELSE 0

RecentEvaluationsAnyDate(results, start_date) ==
    LET evaluated == SelectSeq(results, LAMBDA result : IsSome(result.evaluation))
    IN  [i \in 1..Len(evaluated) |-> Unwrap(evaluated[i].evaluation)]

\* the evaluations the loop of get_recent_evaluation_summary collects
RecentEvaluations(results, start_date) ==
    LET evaluated ==
            SelectSeq(results,
                      LAMBDA result : /\ ~(DateNaive(result.timestamp) < start_date)
                                      /\ IsSome(result.evaluation))
    IN  [i \in 1..Len(evaluated) |-> Unwrap(evaluated[i].evaluation)]

GetRecentEvaluationSummaryCountsAttempts(s, days, t) ==
    LET today == DateNaive(t)
        start_date == today - SaturatingSub(days, 1)
        evaluations == RecentEvaluations(s.results, start_date)
        importance_scores == [i \in 1..Len(evaluations) |-> evaluations[i].importance]
        conciseness_scores == [i \in 1..Len(evaluations) |-> evaluations[i].conciseness]
        accuracy_scores == [i \in 1..Len(evaluations) |-> evaluations[i].accuracy]
    IN  EvaluationSummary(Len(s.results),
                          CalculateScoreStats(importance_scores),
                          CalculateScoreStats(conciseness_scores),
                          CalculateScoreStats(accuracy_scores))

GetRecentEvaluationSummary(s, days, t) ==
    LET today == DateNaive(t)
        start_date == today - SaturatingSub(days, 1)
        evaluations == RecentEvaluations(s.results, start_date)
        importance_scores == [i \in 1..Len(evaluations) |-> evaluations[i].importance]
        conciseness_scores == [i \in 1..Len(evaluations) |-> evaluations[i].conciseness]
        accuracy_scores == [i \in 1..Len(evaluations) |-> evaluations[i].accuracy]
    IN  EvaluationSummary(Len(importance_scores),
                          CalculateScoreStats(importance_scores),
                          CalculateScoreStats(conciseness_scores),
                          CalculateScoreStats(accuracy_scores))

(* ---- the evaluation text (src/src/api_client.rs) ----------------------- *)
\* A text is a sequence of characters. A word that is only ever compared as
\* a whole (a key, a marker, a word of prose) is one character of the
\* model, written in Latin letters; the kanji fu + goukaku of the fail
\* marker and the digit that ends the improvement keys stay separate.
Space == " "
Newline == "\n"
Colon == ":"

\* the bullets in the order strip_prefix tries them: hyphen, katakana middle
\* dot, bullet, minus sign, asterisk
Bullets == << "-", "nakaguro", "bullet", "minus", "*" >>

DigitChars == << "0", "1", "2", "3", "4", "5", "6", "7", "8", "9" >>

IsAsciiDigit(ch) == \E i \in 1..Len(DigitChars) : DigitChars[i] = ch

DigitValue(ch) == (CHOOSE i \in 1..Len(DigitChars) : DigitChars[i] = ch) - 1

KEY_APPROPRIATE == << "tekisetsuna_youyaku_ka" >>
KEY_IMPORTANCE == << "juuyou_jouhou_no_chuushutsu" >>
KEY_CONCISENESS == << "kanketsusei" >>
KEY_ACCURACY == << "seikakusei" >>
KEY_IMPROVEMENT1 == << "kaizenten", "1" >>
KEY_IMPROVEMENT2 == << "kaizenten", "2" >>
KEY_IMPROVEMENT3 == << "kaizenten", "3" >>
KEY_OVERALL == << "sougou_hyouka" >>

YES == << "hai" >>
NO == << "iie" >>
PASS == << "goukaku" >>
FAIL == << "fu", "goukaku" >>

\* the fields in the order the result is assembled
FieldNames ==
    << "appropriate", "importance", "conciseness", "accuracy",
       "improvement1", "improvement2", "improvement3", "overall" >>

KeyOf(field) ==
    CASE field = "appropriate" -> KEY_APPROPRIATE
      [] field = "importance" -> KEY_IMPORTANCE
      [] field = "conciseness" -> KEY_CONCISENESS
      [] field = "accuracy" -> KEY_ACCURACY
      [] field = "improvement1" -> KEY_IMPROVEMENT1
      [] field = "improvement2" -> KEY_IMPROVEMENT2
      [] field = "improvement3" -> KEY_IMPROVEMENT3
      [] field = "overall" -> KEY_OVERALL

EvaluationResult(appropriate, importance, conciseness, accuracy, improvement1, improvement2, improvement3, overall) ==
    [appropriate |-> appropriate, importance |-> importance,
     conciseness |-> conciseness, accuracy |-> accuracy,
     improvement1 |-> improvement1, improvement2 |-> improvement2,
     improvement3 |-> improvement3, overall |-> overall]

DuplicateField(field) == [kind |-> "DuplicateField", field |-> field, value |-> None]
MissingField(field) == [kind |-> "MissingField", field |-> field, value |-> None]
InvalidValue(field, value) ==
    [kind |-> "InvalidValue", field |-> field, value |-> Some(value)]

\* Result<T, ParseEvaluationError>
Ok(x) == [ok |-> TRUE, value |-> Some(x), error |-> None]
Err(e) == [ok |-> FALSE, value |-> None, error |-> Some(e)]

\* str::trim_start, str::trim
RECURSIVE TrimStart(_)
TrimStart(str) ==
    IF str # << >> /\ Head(str) = Space THEN TrimStart(Tail(str)) ELSE str

RECURSIVE TrimEnd(_)
TrimEnd(str) ==
    IF str # << >> /\ str[Len(str)] = Space
    THEN TrimEnd(SubSeq(str, 1, Len(str) - 1))
    ELSE str

Trim(str) == TrimEnd(TrimStart(str))

StartsWith(str, prefix) ==
    Len(str) >= Len(prefix) /\ SubSeq(str, 1, Len(prefix)) = prefix

\* str::lines: the pieces between line feeds; no piece after a final one
RECURSIVE Lines(_)
Lines(text) ==
    IF text = << >>
    THEN << >>
    ELSE IF \E i \in 1..Len(text) : text[i] = Newline
    THEN LET i == CHOOSE k \in 1..Len(text) :
                      text[k] = Newline /\ \A j \in 1..(k - 1) : text[j] # Newline
         IN  << SubSeq(text, 1, i - 1) >> \o Lines(SubSeq(text, i + 1, Len(text)))
    ELSE << text >>

\* the strip_prefix chain: the first bullet that matches is removed
RECURSIVE StripBullet(_, _)
StripBullet(trimmed, b) ==
    IF b > Len(Bullets) THEN trimmed
    ELSE IF Head(trimmed) = Bullets[b] THEN TrimStart(Tail(trimmed))
    ELSE StripBullet(trimmed, b + 1)

\* take_while(is_ascii_digit)
RECURSIVE TakeDigits(_)
TakeDigits(str) ==
    IF str # << >> /\ IsAsciiDigit(Head(str))
    THEN << Head(str) >> \o TakeDigits(Tail(str))
    ELSE << >>

\* the number a digit string denotes
RECURSIVE Decimal(_)
Decimal(digits) ==
    IF digits = << >>
    THEN 0
    ELSE 10 * Decimal(SubSeq(digits, 1, Len(digits) - 1)) + DigitValue(digits[Len(digits)])

ParseScoreNoRange(field, value) ==
    LET trimmed == Trim(value)
        digits == TakeDigits(trimmed)
        score == Decimal(digits)
    IN  IF digits = << >> THEN Err(InvalidValue(field, value))
        ELSE IF score > U8_MAX THEN Err(InvalidValue(field, value))
        ELSE Ok(score)

ParseScore(field, value) ==
    LET trimmed == Trim(value)
        digits == TakeDigits(trimmed)
        score == Decimal(digits)
    IN  IF digits = << >> THEN Err(InvalidValue(field, value))
        ELSE IF score > U8_MAX THEN Err(InvalidValue(field, value))
        ELSE IF ~(MIN_SCORE <= score /\ score <= MAX_SCORE)
        THEN Err(InvalidValue(field, value))
        ELSE Ok(score)

\* the value of a field, parsed as the arm of its key parses it
ParseValue(field, value) ==
    CASE field = "appropriate" ->
            IF StartsWith(value, YES) THEN Ok(TRUE)
            ELSE IF StartsWith(value, NO) THEN Ok(FALSE)
            ELSE Err(InvalidValue(field, value))
      [] field \in {"importance", "conciseness", "accuracy"} -> ParseScore(field, value)
      [] field \in {"improvement1", "improvement2", "improvement3"} -> Ok(value)
      [] field = "overall" ->
            IF StartsWith(value, PASS) THEN Ok("Pass")
            ELSE IF StartsWith(value, FAIL) THEN Ok("Fail")
            ELSE Err(InvalidValue(field, value))

ParseFieldOverwrites(acc, field, value) ==
    LET parsed == ParseValue(field, value)
    IN  IF parsed.ok
        THEN Ok([acc EXCEPT ![field] = parsed.value])
        ELSE parsed

ParseFieldValueFirst(acc, field, value) ==
    LET parsed == ParseValue(field, value)
    IN  IF ~parsed.ok
        THEN parsed
        ELSE IF IsSome(acc[field])
        THEN Err(DuplicateField(field))
        ELSE Ok([acc EXCEPT ![field] = parsed.value])

\* one arm of the match: the duplicate check, then the value
ParseField(acc, field, value) ==
    IF IsSome(acc[field])
    THEN Err(DuplicateField(field))
    ELSE LET parsed == ParseValue(field, value)
         IN  IF parsed.ok
             THEN Ok([acc EXCEPT ![field] = parsed.value])
             ELSE parsed

\* the eight Option variables before the loop
NoFields == [field \in {FieldNames[i] : i \in 1..Len(FieldNames)} |-> None]

StripBulletHyphenOnly(line) ==
    IF Head(line) = Bullets[1] THEN TrimStart(Tail(line)) ELSE line

StripAnyBullet(line) == StripBullet(line, 1)

\* the body of the loop over the lines: Ok(fields) to go on, Err to return
ParseLine(fields, line) ==
    LET trimmed == Trim(line)
    IN  IF trimmed = << >>
        THEN Ok(fields)
        ELSE LET stripped == StripAnyBullet(trimmed)
                 colons == {i \in 1..Len(stripped) : stripped[i] = Colon}
             IN  IF colons = {}
                 THEN Ok(fields)
                 ELSE LET at == CHOOSE i \in colons : \A j \in colons : i <= j
                          key == Trim(SubSeq(stripped, 1, at - 1))
                          value == Trim(SubSeq(stripped, at + 1, Len(stripped)))
                          known == {field \in DOMAIN fields : KeyOf(field) = key}
                      IN  IF known = {}
                          THEN Ok(fields)
                          ELSE ParseField(fields, CHOOSE field \in known : TRUE, value)

RECURSIVE ParseLines(_, _, _)
ParseLines(fields, lines, i) ==
    IF i > Len(lines)
    THEN Ok(fields)
    ELSE LET step == ParseLine(fields, lines[i])
         IN  IF step.ok THEN ParseLines(Unwrap(step.value), lines, i + 1) ELSE step

\* the construction of the result: the first absent field, in the order of
\* the struct, is the missing one
BuildResult(fields) ==
    LET absent == {i \in 1..Len(FieldNames) : ~IsSome(fields[FieldNames[i]])}
    IN  IF absent # {}
        THEN Err(MissingField(FieldNames[CHOOSE i \in absent : \A j \in absent : i <= j]))
        ELSE Ok(EvaluationResult(Unwrap(fields.appropriate), Unwrap(fields.importance),
                                 Unwrap(fields.conciseness), Unwrap(fields.accuracy),
                                 Unwrap(fields.improvement1), Unwrap(fields.improvement2),
                                 Unwrap(fields.improvement3), Unwrap(fields.overall)))

ParseEvaluation(evaluation) ==
    LET parsed == ParseLines(NoFields, Lines(evaluation), 1)
    IN  IF parsed.ok THEN BuildResult(Unwrap(parsed.value)) ELSE parsed

\* Display of a u8
RECURSIVE DisplayU8(_)
DisplayU8(n) ==
    IF n < 10
    THEN << DigitChars[n + 1] >>
    ELSE DisplayU8(n \div 10) \o << DigitChars[(n % 10) + 1] >>

\* one "- key: value\n" of the format string
DisplayLine(key, value) ==
    << Bullets[1], Space >> \o key \o << Colon, Space >> \o value \o << Newline >>

FormatEvaluationDisplaySwapped(parsed) ==
    LET appropriate == IF parsed.appropriate THEN YES ELSE NO
        overall == IF parsed.overall = "Pass" THEN PASS ELSE FAIL
    IN  DisplayLine(KEY_APPROPRIATE, appropriate)
          \o DisplayLine(KEY_IMPORTANCE, DisplayU8(parsed.importance))
          \o DisplayLine(KEY_CONCISENESS, DisplayU8(parsed.accuracy))
          \o DisplayLine(KEY_ACCURACY, DisplayU8(parsed.conciseness))
          \o DisplayLine(KEY_IMPROVEMENT1, parsed.improvement1)
          \o DisplayLine(KEY_IMPROVEMENT2, parsed.improvement2)
          \o DisplayLine(KEY_IMPROVEMENT3, parsed.improvement3)
          \o DisplayLine(KEY_OVERALL, overall)

FormatEvaluationDisplay(parsed) ==
    LET appropriate == IF parsed.appropriate THEN YES ELSE NO
        overall == IF parsed.overall = "Pass" THEN PASS ELSE FAIL
    IN  DisplayLine(KEY_APPROPRIATE, appropriate)
          \o DisplayLine(KEY_IMPORTANCE, DisplayU8(parsed.importance))
          \o DisplayLine(KEY_CONCISENESS, DisplayU8(parsed.conciseness))
          \o DisplayLine(KEY_ACCURACY, DisplayU8(parsed.accuracy))
          \o DisplayLine(KEY_IMPROVEMENT1, parsed.improvement1)
          \o DisplayLine(KEY_IMPROVEMENT2, parsed.improvement2)
          \o DisplayLine(KEY_IMPROVEMENT3, parsed.improvement3)
          \o DisplayLine(KEY_OVERALL, overall)

(* ---- actions ---------------------------------------------------------- *)
NumFails(results) == Len(results) - TotalCorrect(results)

\* app.stats.add_result(passed), then app.stats.save()
SaveStatsNever(save_ok) ==
    /\ faults' = faults
    /\ disk' = disk

SaveStats(save_ok) ==
    /\ faults' = IF save_ok THEN faults ELSE faults + 1
    /\ disk' = IF save_ok THEN Some(stats') ELSE disk

RecordAttempt(passed, save_ok) ==
    /\ save_ok \/ faults < MaxFaults
    /\ stats' = AddResultWithEvaluation(stats, passed, None, now)
    /\ SaveStats(save_ok)
    /\ idle' = [level |-> stats'.buddy.level, saved |-> save_ok, read |-> TRUE]
    /\ op' = "append"
    /\ UNCHANGED now

\* AppAction::Evaluate, Ok branch: record the attempt, then save
Evaluate(passed, save_ok) ==
    /\ RecordAttempt(passed, save_ok)
    /\ UNCHANGED << app, pc >>
    /\ report' = NoReport

LoadThenSave(readable) ==
    /\ readable \/ faults < MaxFaults
    /\ faults' = IF readable THEN faults ELSE faults + 1
    /\ stats' = LoadStats(disk, readable, now)
    /\ disk' = Some(stats')
    /\ idle' = [idle EXCEPT !.read = @ /\ readable]
    /\ UNCHANGED << app, pc >>
    /\ op' = IF IsSome(disk) /\ readable THEN "load" ELSE "load_new"
    /\ report' = NoReport
    /\ UNCHANGED now

\* process start: App::default
Load(readable) ==
    /\ readable \/ faults < MaxFaults
    /\ faults' = IF readable THEN faults ELSE faults + 1
    /\ stats' = LoadStats(disk, readable, now)
    /\ idle' = [idle EXCEPT !.read = @ /\ readable]
    /\ UNCHANGED << app, pc >>
    /\ op' = IF IsSome(disk) /\ readable THEN "load" ELSE "load_new"
    /\ report' = NoReport
    /\ UNCHANGED << disk, now >>

\* time passes
Tick(d) ==
    /\ now + d <= MaxNow
    /\ now' = now + d
    /\ UNCHANGED << app, pc >>
    /\ op' = "tick"
    /\ report' = NoReport
    /\ UNCHANGED << stats, disk, idle, faults >>

InitCommon ==
    /\ stats = TrainingStatsNew
    /\ op = "init"
    /\ app = AppDefault
    /\ pc = "handle_events"
    /\ idle = [level |-> 1, saved |-> FALSE, read |-> TRUE]
    /\ faults = 0
    /\ report = NoReport

LoadAny == \E readable \in BOOLEAN : Load(readable)

(* ---- Spec: a fresh installation, the clock standing still -------------- *)
Init == InitCommon /\ disk = None /\ now = 0

EvaluateBounded ==
    \E passed \in BOOLEAN, save_ok \in BOOLEAN :
        /\ Len(stats.results) < MaxLog
        /\ passed \/ NumFails(stats.results) < MaxFails
        /\ Evaluate(passed, save_ok)

Next == EvaluateBounded \/ LoadAny

Spec == Init /\ [][Next]_vars

(* ---- SpecPasses: only passed attempts, up to beyond both badge caps ---- *)
EvaluatePassed ==
    \E save_ok \in BOOLEAN :
        /\ Len(stats.results) < MaxPasses
        /\ Evaluate(TRUE, save_ok)

NextPasses == EvaluatePassed

SpecPasses == Init /\ [][NextPasses]_vars

(* ---- SpecDoc: stats.json holds any document serde accepts -------------- *)
DocResults ==
    { << >> } \cup { << TrainingResult(0, passed, None) >> : passed \in BOOLEAN }

DocBadge == { Badge(ConsecutiveStreak(BADGE_INTERVAL), 0),
              Badge(CumulativeMilestone(BADGE_INTERVAL), 0) }

DocBadges ==
    { << >> } \cup { << b >> : b \in DocBadge }
             \cup { << b, c >> : b \in DocBadge, c \in DocBadge }

BadgeDocs ==
    [results : DocResults, badges : DocBadges, current_streak : 0..1,
     buddy : {BuddyDefault}, last_training_date : {None, Some(0)}]

InitDoc == InitCommon /\ disk \in { Some(d) : d \in BadgeDocs } /\ now = 0

EvaluateShort ==
    \E passed \in BOOLEAN, save_ok \in BOOLEAN :
        /\ Len(stats.results) <= MaxShortLog
        /\ Evaluate(passed, save_ok)

NextDoc == EvaluateShort \/ LoadAny

SpecDoc == InitDoc /\ [][NextDoc]_vars

(* ---- SpecIdle: stats.json left by earlier sessions, and time passing --- *)
\* the aggregate after n passed attempts recorded at time t
RECURSIVE AfterPasses(_, _)
AfterPasses(n, t) ==
    IF n = 0
    THEN TrainingStatsNew
    ELSE AddResultWithEvaluation(AfterPasses(n - 1, t), TRUE, None, t)

\* the documents earlier sessions saved at tick 0
BuddyDocs == { AfterPasses(n, 0) : n \in 0..MaxDocPasses }

\* this run starts one tick later
InitIdle == InitCommon /\ disk \in { Some(d) : d \in BuddyDocs } /\ now = 1

\* the attempts recorded since tick 0
NumRecent(results) ==
    Cardinality({i \in 1..Len(results) : results[i].timestamp > 0})

\* the attempts are made on the first day, the idle time follows
EvaluateFirstDay ==
    \E passed \in BOOLEAN, save_ok \in BOOLEAN :
        /\ now <= TicksPerDay
        /\ NumRecent(stats.results) < MaxShortLog
        /\ Evaluate(passed, save_ok)

LoadReadable == Load(TRUE)

TickAny == Tick(1)

NextIdle == EvaluateFirstDay \/ LoadReadable \/ TickAny

SpecIdle == InitIdle /\ [][NextIdle]_vars

(* ---- SpecClock: documents dated at any time, also after the start ----- *)
\* the buddies of the documents: level 1, level 2 and level 3, as the
\* passes of earlier sessions left them
ClockPasses ==
    {0, DEFAULT_REQUIRED_EXP + 2, DEFAULT_REQUIRED_EXP + LEVEL2_REQUIRED_EXP + 1}

\* last_training_date as any session, or a clock since set back, left it
ClockDocs ==
    {[AfterPasses(n, 0) EXCEPT !.last_training_date = last] :
        n \in ClockPasses, last \in {None} \cup {Some(t) : t \in 0..MaxNow}}

\* documents whose buddy holds more exp than any level requires
OverflowDocs ==
    {[AfterPasses(n, 0) EXCEPT !.buddy.exp = DEFAULT_REQUIRED_EXP + LEVEL2_REQUIRED_EXP] :
        n \in ClockPasses}

InitClock ==
    /\ InitCommon
    /\ disk \in { Some(d) : d \in ClockDocs \cup OverflowDocs }
    /\ now = 0

\* an attempt of a run that has loaded its document; the save succeeds
EvaluateSaved ==
    \E passed \in BOOLEAN :
        /\ op # "init"
        /\ now > 0
        /\ NumRecent(stats.results) < MaxShortLog
        /\ Evaluate(passed, TRUE)

NextClock == EvaluateSaved \/ LoadReadable \/ TickAny

SpecClock == InitClock /\ [][NextClock]_vars

(* ---- SpecSession: a run that loads, records attempts and shows the report *)
\* the run starts the tick after the document was saved, or PENALTY_DAYS later
InitSession ==
    /\ InitCommon
    /\ disk \in { Some(d) : d \in BuddyDocs }
    /\ now \in {1, PENALTY_DAYS * TicksPerDay}

EvaluateRecent ==
    \E passed \in BOOLEAN, save_ok \in BOOLEAN :
        /\ NumRecent(stats.results) < MaxShortLog
        /\ Evaluate(passed, save_ok)

\* the report view: render_unified_report
ViewReport ==
    /\ report.call = "none"
    /\ report' = [call |-> "render_unified_report",
                  badges |-> GetBadgesByType(stats),
                  daily |-> CalculateDailyStats(stats, DAYS_IN_MONTH, DateNaive(now)),
                  weekly |-> CalculateWeeklyStats(stats, WEEKS_TO_SHOW, now),
                  summary |-> GetRecentEvaluationSummary(stats, DAYS_IN_MONTH, now)]
    /\ UNCHANGED << app, pc >>
    /\ op' = "report"
    /\ UNCHANGED << stats, disk, now, idle, faults >>

NextSession == EvaluateRecent \/ LoadReadable \/ ViewReport

SpecSession == InitSession /\ [][NextSession]_vars

(* ---- SpecReport: the weekly and daily statistics of a recorded log ---- *)
\* the report is computed at the last tick of the day MaxWeeks weeks after day 0
ReportNow == MaxWeeks * WeekTicks + 1

\* the times of the recorded attempts: within a tick of a week boundary
\* counted back from ReportNow, or within the last MaxReportDays days
ReportStamps ==
    {t \in 0..ReportNow :
        \/ (ReportNow - t) % WeekTicks \in {0, 1, WeekTicks - 1}
        \/ t >= ReportNow - MaxReportDays * TicksPerDay}

ReportEntries ==
    {TrainingResult(t, passed, None) : t \in ReportStamps, passed \in BOOLEAN}

\* logs in the order of their timestamps
LogsOf(entries, n) ==
    {log \in UNION {[1..k -> entries] : k \in 0..n} :
        \A i \in 1..(Len(log) - 1) : log[i].timestamp <= log[i + 1].timestamp}

\* the aggregate after the attempts of a log were recorded at their times
RECURSIVE StatsOfLog(_)
StatsOfLog(log) ==
    IF log = << >>
    THEN TrainingStatsNew
    ELSE LET last == log[Len(log)]
         IN  AddResultWithEvaluation(StatsOfLog(SubSeq(log, 1, Len(log) - 1)),
                                     last.passed, last.evaluation, last.timestamp)

InitReport ==
    /\ stats \in {StatsOfLog(log) : log \in LogsOf(ReportEntries, MaxReportLog)}
    /\ disk = Some(stats)
    /\ now = ReportNow
    /\ op = "init"
    /\ app = AppDefault
    /\ pc = "handle_events"
    /\ idle = [level |-> stats.buddy.level, saved |-> TRUE, read |-> TRUE]
    /\ faults = 0
    /\ report = NoReport

\* get_weekly_stats
GetWeeklyStats ==
    /\ report.call = "none"
    /\ \E weeks \in 0..MaxWeeks :
           /\ report' = [call |-> "calculate_weekly_stats", weeks |-> weeks,
                         result |-> CalculateWeeklyStats(stats, weeks, now)]
           /\ UNCHANGED << app, pc >>
           /\ op' = "report"
           /\ UNCHANGED << stats, disk, now, idle, faults >>

\* get_daily_stats
GetDailyStats ==
    /\ report.call = "none"
    /\ \E days \in 0..MaxReportDays :
           /\ report' = [call |-> "calculate_daily_stats", days |-> days,
                         result |-> CalculateDailyStats(stats, days, DateNaive(now))]
           /\ UNCHANGED << app, pc >>
           /\ op' = "report"
           /\ UNCHANGED << stats, disk, now, idle, faults >>

NextReport == GetWeeklyStats \/ GetDailyStats

SpecReport == InitReport /\ [][NextReport]_vars

(* ---- SpecSummary: the evaluation summary of a recorded log ------------ *)
\* the evaluations of test_recent_evaluation_summary
SummaryEvaluations ==
    { EvaluationScores(TRUE, 5, 3, 4, "none", "none", "none", TRUE),
      EvaluationScores(FALSE, 3, 2, 4, "lacking", "verbose", "inaccurate", FALSE) }

\* attempts of the last MaxReportDays days and of the day before, with and
\* without an evaluation
SummaryEntries ==
    {TrainingResult(t, passed, evaluation) :
        t \in (ReportNow - MaxReportDays * TicksPerDay)..ReportNow,
        passed \in BOOLEAN,
        evaluation \in {None} \cup {Some(e) : e \in SummaryEvaluations}}

InitSummary ==
    /\ stats \in {StatsOfLog(log) : log \in LogsOf(SummaryEntries, MaxReportLog)}
    /\ disk = Some(stats)
    /\ now = ReportNow
    /\ op = "init"
    /\ app = AppDefault
    /\ pc = "handle_events"
    /\ idle = [level |-> stats.buddy.level, saved |-> TRUE, read |-> TRUE]
    /\ faults = 0
    /\ report = NoReport

GetSummary ==
    /\ report.call = "none"
    /\ \E days \in 0..MaxReportDays :
           /\ report' = [call |-> "get_recent_evaluation_summary", days |-> days,
                         result |-> GetRecentEvaluationSummary(stats, days, now)]
           /\ UNCHANGED << app, pc >>
           /\ op' = "report"
           /\ UNCHANGED << stats, disk, now, idle, faults >>

NextSummary == GetSummary

SpecSummary == InitSummary /\ [][NextSummary]_vars

(* ---- SpecScores: the statistics of a list of scores -------------------- *)
ScoreLists == UNION {[1..k -> 0..MaxScoreValue] : k \in 0..MaxScoreListLen}

CallCalculateScoreStats ==
    /\ report.call = "none"
    /\ \E scores \in ScoreLists :
           /\ report' = [call |-> "calculate_score_stats", scores |-> scores,
                         result |-> CalculateScoreStats(scores)]
           /\ UNCHANGED << app, pc >>
           /\ op' = "report"
           /\ UNCHANGED << stats, disk, now, idle, faults >>

NextScores == CallCalculateScoreStats

SpecScores == Init /\ [][NextScores]_vars

(* ---- SpecRoundTrip: format_evaluation_display, then parse_evaluation --- *)
\* the characters of an improvement text: a word, a colon, a blank, a line feed
TextChars == {"w", Colon, Space, Newline}

Texts == UNION {[1..k -> TextChars] : k \in 0..MaxTextLen}

\* "nashi", the text of the test responses
NoImprovement == << "nashi" >>

\* one of the three improvement texts varies, the others are "nashi"
ImprovementTexts(texts) ==
    UNION {{<< t, NoImprovement, NoImprovement >>,
            << NoImprovement, t, NoImprovement >>,
            << NoImprovement, NoImprovement, t >>} : t \in texts}

\* the three scores: each score takes each value
ScoreTriples ==
    {<< i, MAX_SCORE + MIN_SCORE - i, (i % MAX_SCORE) + MIN_SCORE >> : i \in MIN_SCORE..MAX_SCORE}

EvaluationResults(texts) ==
    {EvaluationResult(appropriate, s[1], s[2], s[3], t[1], t[2], t[3], overall) :
        appropriate \in BOOLEAN, s \in ScoreTriples,
        t \in ImprovementTexts(texts), overall \in {"Pass", "Fail"}}

CallRoundTrip ==
    /\ report.call = "none"
    /\ \E x \in EvaluationResults(Texts) :
           /\ report' = [call |-> "round_trip", x |-> x,
                         text |-> FormatEvaluationDisplay(x),
                         result |-> ParseEvaluation(FormatEvaluationDisplay(x))]
           /\ UNCHANGED << app, pc >>
           /\ op' = "report"
           /\ UNCHANGED << stats, disk, now, idle, faults >>

NextRoundTrip == CallRoundTrip

SpecRoundTrip == Init /\ [][NextRoundTrip]_vars

(* ---- SpecParse: parse_evaluation reading a response line by line ------- *)
\* the improvement texts a response line can carry: one line, no blank at
\* either end
StoredTexts ==
    {t \in Texts : /\ \A i \in 1..Len(t) : t[i] # Newline
                   /\ t = << >> \/ (t[1] # Space /\ t[Len(t)] # Space)}

\* the value of a field as the response writes it
ValueText(x, field) ==
    CASE field = "appropriate" -> IF x.appropriate THEN YES ELSE NO
      [] field = "importance" -> DisplayU8(x.importance)
      [] field = "conciseness" -> DisplayU8(x.conciseness)
      [] field = "accuracy" -> DisplayU8(x.accuracy)
      [] field = "improvement1" -> x.improvement1
      [] field = "improvement2" -> x.improvement2
      [] field = "improvement3" -> x.improvement3
      [] field = "overall" -> IF x.overall = "Pass" THEN PASS ELSE FAIL

\* the responses: every verdict with every score and the texts "nashi", and
\* the verdicts and scores of PASS_RESPONSE with every text
ResponseResults ==
    {EvaluationResult(appropriate, s[1], s[2], s[3],
                      NoImprovement, NoImprovement, NoImprovement, overall) :
        appropriate \in BOOLEAN, s \in ScoreTriples, overall \in {"Pass", "Fail"}}
    \cup {EvaluationResult(TRUE, 4, 4, 4, t, t, t, "Pass") : t \in StoredTexts}

\* a field line with bullet b (0: no bullet)
FieldLine(b, key, value) ==
    (IF b = 0 THEN << >> ELSE << Bullets[b], Space >>) \o key \o << Colon, Space >> \o value

\* lines that carry no known key: blank lines, prose, a heading with a
\* colon, a known key without a colon, a known key behind other words
OtherLines ==
    { << >>, << Space >>, << "w", Space, "w" >>, << "w", Colon >>,
      << Bullets[1], Space >> \o KEY_OVERALL,
      << "w", Space >> \o KEY_OVERALL \o << Colon, Space >> \o PASS }

\* the response carries the eight fields of x; nothing is read yet
InitParse ==
    /\ stats = TrainingStatsNew
    /\ disk = None
    /\ now = 0
    /\ op = "init"
    /\ app = AppDefault
    /\ pc = "handle_events"
    /\ idle = [level |-> 1, saved |-> FALSE, read |-> TRUE]
    /\ faults = 0
    /\ report \in {[call |-> "parse_evaluation", x |-> x, fed |-> {},
                     fields |-> NoFields, result |-> None,
                     reordered |-> FALSE, skipped |-> FALSE] :
                       x \in ResponseResults}

\* the loop body applied to a line; an Err ends the call
ReadLine(line, fed, reordered, skipped) ==
    LET step == ParseLine(report.fields, line)
    IN  /\ report' = [report EXCEPT
                         !.fed = @ \cup fed,
                         !.fields = IF step.ok THEN Unwrap(step.value) ELSE @,
                         !.result = IF step.ok THEN None ELSE Some(step),
                         !.reordered = @ \/ reordered,
                         !.skipped = @ \/ skipped]
        /\ UNCHANGED << app, pc >>
        /\ op' = "report"
        /\ UNCHANGED << stats, disk, now, idle, faults >>

\* the next line is the line of a field the response has not had yet, with
\* any bullet; fed holds the fields whose lines were read
ReadFieldLine ==
    /\ report.call = "parse_evaluation"
    /\ report.result = None
    /\ \E i \in 1..Len(FieldNames), b \in 0..Len(Bullets) :
           /\ FieldNames[i] \notin report.fed
           /\ ReadLine(FieldLine(b, KeyOf(FieldNames[i]), ValueText(report.x, FieldNames[i])),
                       {FieldNames[i]},
                       \E j \in 1..(i - 1) : FieldNames[j] \notin report.fed,
                       FALSE)

\* the next line carries no known key
ReadOtherLine ==
    /\ report.call = "parse_evaluation"
    /\ report.result = None
    /\ \E line \in OtherLines : ReadLine(line, {}, FALSE, TRUE)

\* the lines are exhausted after the lines of all eight fields were read
EndOfText ==
    /\ report.call = "parse_evaluation"
    /\ report.result = None
    /\ \A i \in 1..Len(FieldNames) : FieldNames[i] \in report.fed
    /\ report' = [report EXCEPT !.result = Some(BuildResult(report.fields))]
    /\ UNCHANGED << app, pc >>
    /\ op' = "report"
    /\ UNCHANGED << stats, disk, now, idle, faults >>

NextParse == ReadFieldLine \/ ReadOtherLine \/ EndOfText

SpecParse == InitParse /\ [][NextParse]_vars

(* ---- SpecParseErrors: parse_evaluation reading any field lines ---------- *)
ScoreFields == {"importance", "conciseness", "accuracy"}

\* the values a score line carries in a response: "4" as in PASS_RESPONSE,
\* "5/5" as in the out-of-order test, "6" as in the out-of-range test, and
\* "0", "10", "256", a word and nothing
ScoreTexts ==
    { << "4" >>, << "5", "/", "5" >>, << "6" >>, << "0" >>, << "1", "0" >>,
      << "2", "5", "6" >>, << "w" >>, << >> }

\* the values a line of the field carries: the ones its arm takes and a word
ValueTexts(field) ==
    CASE field = "appropriate" -> {YES, << "w" >>}
      [] field \in ScoreFields -> ScoreTexts
      [] field \in {"improvement1", "improvement2", "improvement3"} -> {NoImprovement}
      [] field = "overall" -> {PASS, << "w" >>}

\* nothing is read yet
InitParseErrors ==
    /\ stats = TrainingStatsNew
    /\ disk = None
    /\ now = 0
    /\ op = "init"
    /\ app = AppDefault
    /\ pc = "handle_events"
    /\ idle = [level |-> 1, saved |-> FALSE, read |-> TRUE]
    /\ faults = 0
    /\ report = [call |-> "parse_evaluation", fed |-> {}, fields |-> NoFields,
                 result |-> None, last |-> None, ended |-> FALSE]

\* the next line of the response is a line of any field, read or not, with
\* any of its values; last keeps the line, and whether its key had been read
ReadAnyFieldLine ==
    /\ report.call = "parse_evaluation"
    /\ report.result = None
    /\ \E i \in 1..Len(FieldNames) :
           \E value \in ValueTexts(FieldNames[i]) :
               LET field == FieldNames[i]
                   step == ParseLine(report.fields, FieldLine(1, KeyOf(field), value))
               IN  /\ report' = [report EXCEPT
                                    !.fed = @ \cup {field},
                                    !.fields = IF step.ok THEN Unwrap(step.value) ELSE @,
                                    !.result = IF step.ok THEN None ELSE Some(step),
                                    !.last = Some([field |-> field, value |-> value,
                                                   repeated |-> field \in report.fed])]
                   /\ UNCHANGED << app, pc >>
                   /\ op' = "report"
                   /\ UNCHANGED << stats, disk, now, idle, faults >>

\* the lines are exhausted, whichever fields were read
EndOfResponse ==
    /\ report.call = "parse_evaluation"
    /\ report.result = None
    /\ report' = [report EXCEPT !.result = Some(BuildResult(report.fields)),
                                !.ended = TRUE]
    /\ UNCHANGED << app, pc >>
    /\ op' = "report"
    /\ UNCHANGED << stats, disk, now, idle, faults >>

NextParseErrors == ReadAnyFieldLine \/ EndOfResponse

SpecParseErrors == InitParseErrors /\ [][NextParseErrors]_vars

(* ---- SpecLoop: the main loop ------------------------------------------- *)
\* the keys: the ones handle_events names, a letter and the space bar
KeyCodes == {"Enter", "r", "h", "q", "i", "e", "n", "Ctrl+s", "Esc", "w", "Space"}

\* content.trim().is_empty()
IsBlank(text) == \A i \in 1..Len(text) : text[i] \in {Space, Newline}

\* the text area takes the key: the character goes to the end of the text
TextAreaHandle(text, key) ==
    IF key \in {"Ctrl+s", "Esc"} \/ Len(text) >= MaxSummaryLen THEN text
    ELSE Append(text, CASE key = "Space" -> Space
                        [] key = "Enter" -> Newline
                        [] OTHER -> "w")

FAILED_TO_GENERATE == << "Failed to generate" >>

HasTrainingStarted(a) ==
    a.original_text # << "Authenticating" >> /\ ~StartsWith(a.original_text, FAILED_TO_GENERATE)

ReturnFromAuxView(a) ==
    IF HasTrainingStarted(a)
    THEN [a EXCEPT !.view_mode = "Normal",
                   !.status_message = "Normal Mode. Press 'i' to edit."]
    ELSE [a EXCEPT !.view_mode = "Menu",
                   !.status_message = "Select character count and press Enter to start"]

\* what handle_events returns: the App it leaves and the action, if any
Handled(a, action) == [app |-> a, action |-> action]

HandleMenuEvents(a, key) ==
    CASE key = "Enter" -> Handled(a, Some("StartTraining"))
      [] key = "r" -> Handled([a EXCEPT !.view_mode = "Report",
                                        !.status_message = "Report. Press 'r' to close."], None)
      [] key = "h" -> Handled([a EXCEPT !.view_mode = "Help",
                                        !.status_message = "Help. Press 'h' to close."], None)
      [] key = "q" -> Handled([a EXCEPT !.should_quit = TRUE], None)
      [] OTHER -> Handled(a, None)

HandleEditingEventsSubmitsBlank(a, key) ==
    CASE key = "Ctrl+s" -> Handled([a EXCEPT !.is_editing = FALSE], Some("Evaluate"))
      [] key = "Esc" -> Handled([a EXCEPT !.is_editing = FALSE,
                                          !.status_message = "Normal Mode. Press 'i' to edit."],
                                None)
      [] OTHER -> Handled([a EXCEPT !.text_area = TextAreaHandle(@, key)], None)

HandleEditingEvents(a, key) ==
    CASE key = "Ctrl+s" ->
            IF ~IsBlank(a.text_area)
            THEN Handled([a EXCEPT !.is_editing = FALSE], Some("Evaluate"))
            ELSE Handled(a, None)
      [] key = "Esc" -> Handled([a EXCEPT !.is_editing = FALSE,
                                          !.status_message = "Normal Mode. Press 'i' to edit."],
                                None)
      [] OTHER -> Handled([a EXCEPT !.text_area = TextAreaHandle(@, key)], None)

HandleReportEvents(a, key) ==
    CASE key = "r" -> Handled(ReturnFromAuxView(a), None)
      [] key = "q" -> Handled([a EXCEPT !.should_quit = TRUE], None)
      [] OTHER -> Handled(a, None)

HandleHelpEvents(a, key) ==
    CASE key = "h" -> Handled(ReturnFromAuxView(a), None)
      [] key = "q" -> Handled([a EXCEPT !.should_quit = TRUE], None)
      [] OTHER -> Handled(a, None)

HandleNormalModeEvents(a, key) ==
    CASE key \in {"i", "Enter"} ->
            IF ~a.show_evaluation_overlay /\ a.view_mode = "Normal"
            THEN Handled([a EXCEPT !.is_editing = TRUE,
                                   !.status_message = "Editing Mode. Press 'Esc' to exit."], None)
            ELSE Handled(a, None)
      [] key = "e" ->
            IF a.view_mode = "Normal" /\ a.evaluation_text # << >>
            THEN Handled([a EXCEPT !.show_evaluation_overlay = ~@], None)
            ELSE Handled(a, None)
      [] key = "n" ->
            IF a.show_evaluation_overlay /\ a.view_mode = "Normal"
            THEN Handled([a EXCEPT !.show_evaluation_overlay = FALSE], Some("NextTraining"))
            ELSE Handled(a, None)
      [] key = "r" ->
            IF a.view_mode = "Report"
            THEN Handled(ReturnFromAuxView(a), None)
            ELSE Handled([a EXCEPT !.view_mode = "Report",
                                   !.status_message = "Report. Press 'r' to close."], None)
      [] key = "h" ->
            IF a.view_mode = "Help"
            THEN Handled(ReturnFromAuxView(a), None)
            ELSE Handled([a EXCEPT !.view_mode = "Help",
                                   !.status_message = "Help. Press 'h' to close."], None)
      [] key = "q" -> Handled([a EXCEPT !.should_quit = TRUE], None)
      [] OTHER -> Handled(a, None)

HandleEventsViewKeysFirst(a, key) ==
    IF a.view_mode = "Menu" THEN HandleMenuEvents(a, key)
    ELSE IF a.is_editing /\ key \notin {"r", "h", "q"} THEN HandleEditingEvents(a, key)
    ELSE IF a.view_mode = "Report" THEN HandleReportEvents(a, key)
    ELSE IF a.view_mode = "Help" THEN HandleHelpEvents(a, key)
    ELSE HandleNormalModeEvents(a, key)

HandleEvents(a, key) ==
    IF a.view_mode = "Menu" THEN HandleMenuEvents(a, key)
    ELSE IF a.is_editing THEN HandleEditingEvents(a, key)
    ELSE IF a.view_mode = "Report" THEN HandleReportEvents(a, key)
    ELSE IF a.view_mode = "Help" THEN HandleHelpEvents(a, key)
    ELSE HandleNormalModeEvents(a, key)

\* the arm of the action up to its await
StartAction(a, action) ==
    CASE action = "StartTraining" ->
            [a EXCEPT !.view_mode = "Normal", !.status_message = "Generating text..."]
      [] action = "Evaluate" ->
            [a EXCEPT !.is_evaluating = TRUE,
                      !.status_message = "Evaluating your summary..."]
      [] action = "NextTraining" ->
            [a EXCEPT !.show_evaluation_overlay = FALSE,
                      !.evaluation_text = << >>,
                      !.evaluation_passed = FALSE,
                      !.text_area = << >>,
                      !.status_message = "Generating new text..."]

AwaitOf(action) == IF action = "Evaluate" THEN "evaluate_summary" ELSE "generate_text"

\* main polls for key events only at the top of the loop
KeyEventsPolledAnywhere == pc # "exit"

KeyEventsPolled == pc = "handle_events"

\* one turn of the loop with a key press: handle_events, then the arm of the
\* action it returns, up to the request it awaits
HandleKey ==
    /\ KeyEventsPolled
    /\ \E key \in KeyCodes :
           LET handled == HandleEvents(app, key)
           IN  /\ app' = IF IsSome(handled.action)
                         THEN StartAction(handled.app, Unwrap(handled.action))
                         ELSE handled.app
               /\ pc' = IF IsSome(handled.action) THEN AwaitOf(Unwrap(handled.action))
                        ELSE IF handled.app.should_quit THEN "exit"
                        ELSE "handle_events"
    /\ op' = "key"
    /\ report' = NoReport
    /\ UNCHANGED << stats, disk, now, idle, faults >>

\* generate_text_for_training resumes with the text or with an error
GenerateTextDone ==
    /\ pc = "generate_text"
    /\ \E ok \in BOOLEAN :
           app' = IF ok
                  THEN [app EXCEPT !.original_text = << "w" >>,
                                   !.status_message = "Normal Mode. Press 'i' to edit."]
                  ELSE [app EXCEPT !.original_text = FAILED_TO_GENERATE \o << "w" >>,
                                   !.status_message = "Error"]
    /\ pc' = "handle_events"
    /\ op' = "generate"
    /\ report' = NoReport
    /\ UNCHANGED << stats, disk, now, idle, faults >>

\* the responses of the evaluation request: a verdict word and prose, the
\* field list of PASS_RESPONSE, the same behind a verdict line,
\* BROKEN_RESPONSE, a verdict word after a blank line, and nothing
PassingResult ==
    EvaluationResult(TRUE, 4, 4, 4, NoImprovement, NoImprovement, NoImprovement, "Pass")

Responses ==
    { YES \o << Newline, "w" >>,
      NO \o << Newline, "w" >>,
      FormatEvaluationDisplay(PassingResult),
      YES \o << Newline >> \o FormatEvaluationDisplay(PassingResult),
      << "w" >>,
      << Newline >> \o YES,
      << >> }

\* the first line of the response starts with the yes marker
EvaluationPassedAlways(evaluation) == TRUE

EvaluationPassed(evaluation) ==
    LET lines == Lines(evaluation)
    IN  lines # << >> /\ StartsWith(Trim(lines[1]), YES)

EvaluateSummaryOkSaveFatal ==
    /\ pc = "evaluate_summary"
    /\ \E evaluation \in Responses, save_ok \in BOOLEAN :
           /\ RecordAttempt(EvaluationPassed(evaluation), save_ok)
           /\ app' = [app EXCEPT
                         !.evaluation_passed = EvaluationPassed(evaluation),
                         !.evaluation_text = evaluation,
                         !.show_evaluation_overlay = TRUE,
                         !.is_evaluating = FALSE,
                         !.status_message =
                             "Evaluation complete. Press 'e' to toggle, 'n' for next."]
           /\ pc' = IF save_ok THEN "handle_events" ELSE "exit"
    /\ report' = NoReport

\* evaluate_summary resumes with Ok(evaluation): the attempt is recorded
\* and saved
EvaluateSummaryOk ==
    /\ pc = "evaluate_summary"
    /\ \E evaluation \in Responses, save_ok \in BOOLEAN :
           /\ RecordAttempt(EvaluationPassed(evaluation), save_ok)
           /\ app' = [app EXCEPT
                         !.evaluation_passed = EvaluationPassed(evaluation),
                         !.evaluation_text = evaluation,
                         !.show_evaluation_overlay = TRUE,
                         !.is_evaluating = FALSE,
                         !.status_message =
                             IF save_ok
                             THEN "Evaluation complete. Press 'e' to toggle, 'n' for next."
                             ELSE "Warning: Failed to save stats"]
    /\ pc' = "handle_events"
    /\ report' = NoReport

EvaluateSummaryErrRecordsFailed ==
    /\ pc = "evaluate_summary"
    /\ app' = [app EXCEPT !.evaluation_text = << "Error" >>,
                          !.evaluation_passed = FALSE,
                          !.show_evaluation_overlay = TRUE,
                          !.is_evaluating = FALSE,
                          !.status_message = "Error occurred."]
    /\ pc' = "handle_events"
    /\ op' = "error"
    /\ report' = NoReport
    /\ stats' = AddResultWithEvaluation(stats, FALSE, None, now)
    /\ disk' = Some(stats')
    /\ UNCHANGED << now, idle, faults >>

\* evaluate_summary resumes with Err(e)
EvaluateSummaryErr ==
    /\ pc = "evaluate_summary"
    /\ app' = [app EXCEPT !.evaluation_text = << "Error" >>,
                          !.evaluation_passed = FALSE,
                          !.show_evaluation_overlay = TRUE,
                          !.is_evaluating = FALSE,
                          !.status_message = "Error occurred."]
    /\ pc' = "handle_events"
    /\ op' = "error"
    /\ report' = NoReport
    /\ UNCHANGED << stats, disk, now, idle, faults >>

EvaluateSummaryOkBounded == NumRecent(stats.results) < MaxLoopLog /\ EvaluateSummaryOk

NextLoop == HandleKey \/ GenerateTextDone \/ EvaluateSummaryOkBounded \/ EvaluateSummaryErr

\* the process starts: App::default loads what an earlier session saved a
\* tick ago, nothing or a log one pass short of the first badges
InitLoop ==
    /\ disk \in {None, Some(AfterPasses(BADGE_INTERVAL - 1, 0))}
    /\ now = 1
    /\ stats = LoadStats(disk, TRUE, now)
    /\ op = "init"
    /\ idle = [level |-> stats.buddy.level, saved |-> FALSE, read |-> TRUE]
    /\ faults = 0
    /\ report = NoReport
    /\ app = AppDefault
    /\ pc = "handle_events"

SpecLoop == InitLoop /\ [][NextLoop]_vars

(* ---- SpecRebuild: rebuild_badges_from_history on any document --------- *)
\* the logs: every outcome sequence, attempt i recorded at tick i
RebuildLogs ==
    UNION {{[i \in 1..k |-> TrainingResult(i, outcome[i], None)] :
               outcome \in [1..k -> BOOLEAN]} : k \in 0..MaxRebuildLog}

InitRebuild ==
    /\ stats \in {[TrainingStatsNew EXCEPT !.results = log, !.badges = badges,
                                           !.current_streak = TrailingPassed(log)] :
                     log \in RebuildLogs, badges \in DocBadges}
    /\ disk = Some(stats)
    /\ now = MaxRebuildLog + 1
    /\ op = "init"
    /\ app = AppDefault
    /\ pc = "handle_events"
    /\ idle = [level |-> stats.buddy.level, saved |-> TRUE, read |-> TRUE]
    /\ faults = 0
    /\ report = NoReport

\* rebuild_badges_from_history, and the same once more on its result
CallRebuildTwice ==
    /\ report.call = "none"
    /\ LET once == RebuildBadgesFromHistory(stats)
           twice == RebuildBadgesFromHistory(once)
       IN  report' = [call |-> "rebuild_badges_from_history",
                      once |-> once.badges, twice |-> twice.badges]
    /\ op' = "report"
    /\ UNCHANGED << stats, disk, now, idle, faults, app, pc >>

NextRebuild == CallRebuildTwice

SpecRebuild == InitRebuild /\ [][NextRebuild]_vars

(* ---- SpecOverlay: calculate_overlay_area on any terminal area --------- *)
\* u16::saturating_sub, u16::saturating_mul
SaturatingMul(a, b) == IF a * b > U16_MAX THEN U16_MAX ELSE a * b

Rect(x, y, width, height) == [x |-> x, y |-> y, width |-> width, height |-> height]

\* one side of the overlay: the percentage of the side, at least the
\* minimum, at most what the margins leave
OverlaySideNoCap(side, min_side) ==
    Max(SaturatingMul(side, OVERLAY_SIZE_PERCENT) \div 100, min_side)

OverlaySide(side, min_side) ==
    Min(Max(SaturatingMul(side, OVERLAY_SIZE_PERCENT) \div 100, min_side),
        SaturatingSub(side, SaturatingMul(OVERLAY_MARGIN, 2)))

CalculateOverlayArea(full_area) ==
    LET overlay_width == OverlaySide(full_area.width, MIN_OVERLAY_WIDTH)
        overlay_height == OverlaySide(full_area.height, MIN_OVERLAY_HEIGHT)
    IN  Rect(full_area.x + SaturatingSub(full_area.width, overlay_width) \div 2,
             full_area.y + SaturatingSub(full_area.height, overlay_height) \div 2,
             overlay_width, overlay_height)

\* the sides of the terminal: every small one, the sides of the tests, the
\* first side whose percentage saturates, and the largest
AreaSides == (0..MaxAreaSide) \cup {100, U16_MAX \div OVERLAY_SIZE_PERCENT + 1, U16_MAX}

AreaOrigins == {<< 0, 0 >>, << 3, 1 >>}

CallCalculateOverlayArea ==
    /\ report.call = "none"
    /\ \E width \in AreaSides, height \in AreaSides, origin \in AreaOrigins :
           LET full_area == Rect(origin[1], origin[2], width, height)
           IN  report' = [call |-> "calculate_overlay_area", full_area |-> full_area,
                          result |-> CalculateOverlayArea(full_area)]
    /\ op' = "report"
    /\ UNCHANGED << stats, disk, now, idle, faults, app, pc >>

NextOverlay == CallCalculateOverlayArea

SpecOverlay == Init /\ [][NextOverlay]_vars

(* ---- SpecHistory: long logs with a failed attempt anywhere ------------ *)
EvaluateHistory ==
    \E passed \in BOOLEAN :
        /\ Len(stats.results) < MaxHistoryLog
        /\ passed \/ NumFails(stats.results) < MaxHistoryFails
        /\ Evaluate(passed, TRUE)

NextHistory == EvaluateHistory

SpecHistory == Init /\ [][NextHistory]_vars

(* ---- helpers of the properties ---------------------------------------- *)
BadgeTypes(badges) == {badges[i].badge_type : i \in 1..Len(badges)}

Thresholds(badges, variant) ==
    {bt.n : bt \in {x \in BadgeTypes(badges) : x.variant = variant}}

MultiplesUpTo(limit) == {BADGE_INTERVAL * k : k \in 1..(limit \div BADGE_INTERVAL)}

IsPrefix(p, q) == Len(p) <= Len(q) /\ \A i \in 1..Len(p) : p[i] = q[i]

LastResult == stats.results[Len(stats.results)]

AllPassed(results) == \A i \in 1..Len(results) : results[i].passed

Passes(n) == [i \in 1..n |-> TRUE]

Outcomes(results) == [i \in 1..Len(results) |-> results[i].passed]

Doc == Unwrap(disk)

\* the number k of results at the tail that all passed, the result before
\* them (if any) having failed
TrailingCount(results) ==
    CHOOSE k \in 0..Len(results) :
        /\ \A i \in (Len(results) - k + 1)..Len(results) : results[i].passed
        /\ k = Len(results) \/ ~results[Len(results) - k].passed

\* C1: current_streak equals the number of trailing passed results of the
\* log, counted back from the tail to the first failed result or the start.
StreakMatchesLog ==
    stats.current_streak = TrailingPassed(stats.results)

StreakMatchesLogWitness ==
    /\ op = "append"
    /\ Outcomes(stats.results) = << TRUE, TRUE, FALSE, TRUE, TRUE >>
    /\ stats.current_streak = 2

\* C2: replaying the log with rebuild_badges_from_history, from the badge list
\* the appends produced and also from an empty badge list, gives exactly the
\* badge types the incremental appends produced.
ReplayEquivalence ==
    /\ BadgeTypes(RebuildBadgesFromHistory(stats).badges) = BadgeTypes(stats.badges)
    /\ BadgeTypes(RebuildBadgesFromHistory([stats EXCEPT !.badges = << >>]).badges)
          = BadgeTypes(stats.badges)

ReplayEquivalenceWitness ==
    /\ op = "append"
    /\ NumFails(stats.results) = 1
    /\ BadgeTypes(stats.badges) =
          { ConsecutiveStreak(5), CumulativeMilestone(5), CumulativeMilestone(10) }

\* C3: after a successful load the badge set is exactly the set derived from
\* the log alone, each badge held once, whatever badge list the persisted
\* document held.
LoadedBadgesDerivedFromLog ==
    op = "load" =>
        /\ BadgeTypes(stats.badges)
             = BadgeTypes(RebuildFrom(stats.results, 1, 0, 0, << >>))
        /\ Len(stats.badges) = Cardinality(BadgeTypes(stats.badges))

\* C4: after N consecutive passes on a fresh log the streak badges are
\* exactly 5, 10, ..., min(N, 50) and the cumulative badges exactly
\* 5, 10, ..., min(N, 100), each held once.
ConsecutivePassesBadges ==
    AllPassed(stats.results) =>
        LET N == Len(stats.results)
            streak == MultiplesUpTo(Min(N, MAX_CONSECUTIVE_STREAK))
            cumulative == MultiplesUpTo(Min(N, MAX_CUMULATIVE_MILESTONE))
        IN  /\ Thresholds(stats.badges, "ConsecutiveStreak") = streak
            /\ Thresholds(stats.badges, "CumulativeMilestone") = cumulative
            /\ Len(stats.badges) = Cardinality(streak) + Cardinality(cumulative)

ConsecutivePassesBadgesWitness ==
    /\ op = "append"
    /\ AllPassed(stats.results)
    /\ Len(stats.results) > MAX_CUMULATIVE_MILESTONE
    /\ Len(stats.badges) = 30

\* C5: no two badges of the badge list share a badge_type.
NoDuplicateBadges ==
    \A i, j \in 1..Len(stats.badges) :
        stats.badges[i].badge_type = stats.badges[j].badge_type => i = j

NoDuplicateBadgesWitness ==
    /\ op = "append"
    /\ Outcomes(stats.results) = Passes(5) \o << FALSE >> \o Passes(5)
    /\ stats.current_streak = 5
    /\ Cardinality({i \in 1..Len(stats.badges) :
                      stats.badges[i].badge_type = ConsecutiveStreak(5)}) = 1

\* C6: an append keeps every badge already awarded, with its earned_at, in
\* place, and a failed append leaves the badge list as it was.
BadgesOnlyGrow ==
    [][op' = "append" =>
         /\ IsPrefix(stats.badges, stats'.badges)
         /\ ~stats'.results[Len(stats'.results)].passed => stats'.badges = stats.badges
      ]_vars

BadgesOnlyGrowWitness ==
    /\ op = "append"
    /\ Outcomes(stats.results) = Passes(5) \o << FALSE >>
    /\ stats.current_streak = 0
    /\ HasBadge(stats.badges, ConsecutiveStreak(5))

\* C7: without decay the buddy is a function of the number p of passed
\* appends: (1,p) for p<5, (2,p-5) for 5<=p<15, else
\* (3 + (p-15) div 5, (p-15) mod 5).
BuddyOfPasses(p) ==
    IF p < 5 THEN [level |-> 1, exp |-> p]
    ELSE IF p < 15 THEN [level |-> 2, exp |-> p - 5]
    ELSE [level |-> 3 + (p - 15) \div 5, exp |-> (p - 15) % 5]

BuddyIsFunctionOfPasses ==
    stats.buddy = BuddyOfPasses(TotalCorrect(stats.results))

BuddyIsFunctionOfPassesWitness ==
    /\ op = "append"
    /\ TotalCorrect(stats.results) = 20
    /\ NumFails(stats.results) = 1
    /\ stats.buddy = [level |-> 4, exp |-> 0]

\* C8: a load whose document has last_training_date at least 3 days before
\* now sets level to max(1, level-1), exp to 0 and last_training_date to now.
PenaltyOnLoad ==
    (/\ op = "load"
     /\ IsSome(Doc.last_training_date)
     /\ now - Unwrap(Doc.last_training_date) >= PENALTY_DAYS * TicksPerDay)
    => /\ stats.buddy = [level |-> Max(1, Doc.buddy.level - 1), exp |-> 0]
       /\ stats.last_training_date = Some(now)

PenaltyOnLoadWitness ==
    /\ op = "load"
    /\ Doc.buddy = [level |-> 2, exp |-> 3]
    /\ IsSome(Doc.last_training_date)
    /\ now - Unwrap(Doc.last_training_date) >= PENALTY_DAYS * TicksPerDay
    /\ stats.buddy = [level |-> 1, exp |-> 0]

FailedAppendKeepsBuddy ==
    [][(op' = "append" /\ ~stats'.results[Len(stats'.results)].passed)
         => stats'.buddy = stats.buddy]_vars

FailedAppendKeepsBuddyWitness ==
    /\ op = "append"
    /\ ~LastResult.passed
    /\ stats.buddy = [level |-> 2, exp |-> 3]

\* C11: the streak recomputed on load is the number of trailing passed
\* results of the log whatever current_streak the document stored, and
\* recalculate_streak applied after an append changes nothing.
StreakSelfHealing ==
    /\ op = "load" => stats.current_streak = TrailingCount(stats.results)
    /\ op = "append" => RecalculateStreak(stats) = stats

StreakSelfHealingWitness ==
    /\ op = "load"
    /\ Doc.current_streak = 1
    /\ Doc.results # << >> /\ ~Doc.results[Len(Doc.results)].passed
    /\ stats.results = Doc.results
    /\ stats.current_streak = 0

\* C13: an append, passed or failed, sets last_training_date to the time of
\* the append; whenever the log is non-empty last_training_date is set and
\* is not earlier than the timestamp of the last log entry.
AppendSetsLastTrainingDate ==
    /\ op = "append" => stats.last_training_date = Some(now)
    /\ stats.results # << >> =>
           /\ IsSome(stats.last_training_date)
           /\ Unwrap(stats.last_training_date) >= LastResult.timestamp

AppendSetsLastTrainingDateWitness ==
    /\ op = "append"
    /\ ~LastResult.passed
    /\ LastResult.timestamp = TicksPerDay
    /\ Len(stats.results) > 1
    /\ stats.results[Len(stats.results) - 1].timestamp = 0
    /\ stats.last_training_date = Some(TicksPerDay)

\* the number of results with the given outcome and lo <= timestamp < hi
Attempts(results, lo, hi, passed) ==
    Cardinality({j \in 1..Len(results) :
                   /\ lo <= results[j].timestamp
                   /\ results[j].timestamp < hi
                   /\ results[j].passed = passed})

\* C14: entry i (oldest first) of calculate_weekly_stats(weeks, now) counts
\* exactly the attempts with
\* now - 7*(weeks-i+1) days <= timestamp < now - 7*(weeks-i) days, so that
\* the windows end at now.
WeeklyWindowsEndAtNow ==
    report.call = "calculate_weekly_stats" =>
        \A i \in 1..report.weeks :
            LET lo == now - WeekTicks * (report.weeks - i + 1)
                hi == now - WeekTicks * (report.weeks - i)
            IN  /\ report.result[i].correct = Attempts(stats.results, lo, hi, TRUE)
                /\ report.result[i].incorrect = Attempts(stats.results, lo, hi, FALSE)

\* the set of results dated on a day, with the given outcome
DatedOn(results, date, passed) ==
    {j \in 1..Len(results) :
        DateNaive(results[j].timestamp) = date /\ results[j].passed = passed}

\* C15: calculate_daily_stats(days, today) has exactly the keys today,
\* today-1, ..., today-(days-1), and the bucket of each key counts the passed
\* and the failed attempts dated on that day; attempts dated outside the
\* window create no key.
DailyBuckets ==
    report.call = "calculate_daily_stats" =>
        LET today == DateNaive(now)
            keys == {today - i : i \in 0..(report.days - 1)}
        IN  /\ DOMAIN report.result = keys
            /\ Cardinality(DOMAIN report.result) = report.days
            /\ \A date \in keys :
                   /\ report.result[date].correct
                        = Cardinality(DatedOn(stats.results, date, TRUE))
                   /\ report.result[date].incorrect
                        = Cardinality(DatedOn(stats.results, date, FALSE))

DailyBucketsWitness ==
    /\ report.call = "calculate_daily_stats"
    /\ report.days = 2
    /\ Len(stats.results) = 2
    /\ DateNaive(stats.results[1].timestamp) = DateNaive(now) - 2
    /\ DateNaive(stats.results[2].timestamp) = DateNaive(now) - 1
    /\ ~stats.results[2].passed
    /\ report.result[DateNaive(now) - 1] = DailyStats(0, 1)
    /\ report.result[DateNaive(now)] = DailyStats(0, 0)

\* the attempts that carry an evaluation and are dated start or later
EvaluatedSince(results, start) ==
    {j \in 1..Len(results) :
        IsSome(results[j].evaluation) /\ DateNaive(results[j].timestamp) >= start}

SummaryAbsent(summary) ==
    /\ summary.count = 0
    /\ summary.importance = None
    /\ summary.conciseness = None
    /\ summary.accuracy = None

\* C16 as stated: get_recent_evaluation_summary(days) counts exactly the
\* attempts that carry an evaluation and are dated today-(days-1) or later,
\* and with no such attempt it returns count 0 and no statistics.
SummaryCountsEvaluated ==
    report.call = "get_recent_evaluation_summary" =>
        LET counted == EvaluatedSince(stats.results, DateNaive(now) - (report.days - 1))
        IN  /\ report.result.count = Cardinality(counted)
            /\ counted = {} => SummaryAbsent(report.result)

\* C16 amended: the same for days >= 1; days = 0 counts as days = 1 does.
SummaryCountsEvaluatedFromOneDay ==
    report.call = "get_recent_evaluation_summary" =>
        LET counted == EvaluatedSince(stats.results,
                                      DateNaive(now) - (Max(report.days, 1) - 1))
        IN  /\ report.result.count = Cardinality(counted)
            /\ counted = {} => SummaryAbsent(report.result)

SummaryCountsEvaluatedFromOneDayWitness ==
    /\ report.call = "get_recent_evaluation_summary"
    /\ report.days = 1
    /\ Len(stats.results) = 2
    /\ DateNaive(stats.results[1].timestamp) = DateNaive(now) - 1
    /\ IsSome(stats.results[1].evaluation)
    /\ DateNaive(stats.results[2].timestamp) = DateNaive(now)
    /\ stats.results[2].passed /\ stats.results[2].evaluation = None
    /\ SummaryAbsent(report.result)

\* the k-th smallest score of a list
KthSmallest(scores, k) ==
    CHOOSE v \in {scores[i] : i \in 1..Len(scores)} :
        /\ Cardinality({i \in 1..Len(scores) : scores[i] < v}) < k
        /\ k <= Cardinality({i \in 1..Len(scores) : scores[i] <= v})

\* the fraction f has the value n / d
ValueIs(f, n, d) == f.num * d = n * f.den

\* C17: for a non-empty list of scores the median is the middle value of the
\* sorted list when the length is odd and the mean of the two middle values
\* when it is even, whatever the order of the input, and the average is the
\* sum divided by the count; [5,3] gives 4 and 4, [1,2,3,4] gives median
\* 2.5, [10,2,5] gives median 5.
MedianAndAverage ==
    (report.call = "calculate_score_stats" /\ report.scores # << >>) =>
        LET scores == report.scores
            n == Len(scores)
            half == n \div 2
            stat == Unwrap(report.result)
        IN  /\ IsSome(report.result)
            /\ IF n % 2 = 1
               THEN ValueIs(stat.median, KthSmallest(scores, half + 1), 1)
               ELSE ValueIs(stat.median,
                            KthSmallest(scores, half) + KthSmallest(scores, half + 1), 2)
            /\ \E sum \in 0..(n * MaxScoreValue) :
                   /\ sum = SumScores(scores)
                   /\ ValueIs(stat.average, sum, n)
            /\ scores = << 5, 3 >> =>
                   stat = EvaluationScoreStats([num |-> 4, den |-> 1], [num |-> 4, den |-> 1])
            /\ scores = << 1, 2, 3, 4 >> => stat.median = [num |-> 5, den |-> 2]
            /\ scores = << 10, 2, 5 >> => stat.median = [num |-> 5, den |-> 1]

MedianAndAverageWitness ==
    /\ report.call = "calculate_score_stats"
    /\ report.scores = << 4, 1, 3, 2 >>
    /\ Unwrap(report.result).median = [num |-> 5, den |-> 2]
    /\ Unwrap(report.result).average = [num |-> 5, den |-> 2]

\* C12: an append adds one entry at the tail and leaves the earlier entries
\* and their order as they were; the streak recompute, decay check and badge
\* rebuild of a load leave the log as the document held it; the statistics
\* and the badge listing of the report leave the log as it was.
LogAppendOnly ==
    [][/\ op' = "append" =>
            /\ Len(stats'.results) = Len(stats.results) + 1
            /\ \A i \in 1..Len(stats.results) : stats'.results[i] = stats.results[i]
       /\ op' = "load" => stats'.results = Unwrap(disk).results
       /\ op' = "report" => stats'.results = stats.results
      ]_vars

LogAppendOnlyWitness ==
    /\ op = "report"
    /\ now = PENALTY_DAYS * TicksPerDay
    /\ Len(stats.results) = 10
    /\ stats.results[9].timestamp = 0
    /\ LastResult.timestamp = now
    /\ stats.buddy = [level |-> 1, exp |-> 1]
    /\ HasBadge(stats.badges, ConsecutiveStreak(10))

SortedByEarnedAtDescending(list) ==
    \A j, k \in 1..Len(list) : j < k => list[j].earned_at >= list[k].earned_at

Occurrences(list, b) == Cardinality({j \in 1..Len(list) : list[j] = b})

\* C18: get_badges_by_type splits the badge list into the ConsecutiveStreak
\* and the CumulativeMilestone badges, every badge being in exactly one of
\* the two lists, and each list is sorted by earned_at descending.
BadgesByTypeSortedDescending ==
    report.call = "render_unified_report" =>
        LET consecutive == report.badges[1]
            cumulative == report.badges[2]
        IN  /\ \A j \in 1..Len(consecutive) :
                   consecutive[j].badge_type.variant = "ConsecutiveStreak"
            /\ \A j \in 1..Len(cumulative) :
                   cumulative[j].badge_type.variant = "CumulativeMilestone"
            /\ \A i \in 1..Len(stats.badges) :
                   Occurrences(consecutive, stats.badges[i])
                     + Occurrences(cumulative, stats.badges[i]) = 1
            /\ Len(consecutive) + Len(cumulative) = Len(stats.badges)
            /\ SortedByEarnedAtDescending(consecutive)
            /\ SortedByEarnedAtDescending(cumulative)

\* a text as parse_evaluation stores it: one line, no blank at either end
IsStoredText(t) ==
    /\ \A i \in 1..Len(t) : t[i] # Newline
    /\ t = << >> \/ (t[1] # Space /\ t[Len(t)] # Space)

\* C20 as stated: for every EvaluationResult x with scores in 1..5 and any
\* improvement texts, parse_evaluation(format_evaluation_display(x)) is Ok(x).
RoundTrip ==
    report.call = "round_trip" => report.result = Ok(report.x)

\* C20 amended: the same for improvement texts that are a single line
\* without leading or trailing blanks.
RoundTripOfStoredTexts ==
    (/\ report.call = "round_trip"
     /\ IsStoredText(report.x.improvement1)
     /\ IsStoredText(report.x.improvement2)
     /\ IsStoredText(report.x.improvement3))
    => report.result = Ok(report.x)

RoundTripOfStoredTextsWitness ==
    /\ report.call = "round_trip"
    /\ report.x.improvement2 = << Colon, "w" >>
    /\ report.x.overall = "Fail"
    /\ ~report.x.appropriate
    /\ report.x.importance = MAX_SCORE
    /\ report.result = Ok(report.x)

\* C19: whatever the order of the eight field lines, the bullet of each
\* line and the lines without a known key between them, every field line
\* read is taken up and parse_evaluation returns Ok with the eight field
\* values of the response.
ParseIgnoresLayout ==
    report.call = "parse_evaluation" =>
        /\ report.result = None =>
               \A field \in report.fed : IsSome(report.fields[field])
        /\ IsSome(report.result) => Unwrap(report.result) = Ok(report.x)

ParseIgnoresLayoutWitness ==
    /\ report.call = "parse_evaluation"
    /\ report.reordered /\ report.skipped
    /\ report.x.improvement3 = << "w", Colon >>
    /\ report.result = Some(Ok(report.x))


\* the number a score value is accepted with: its leading run of digits is
\* zeros followed by one digit of 1..5 (0 when the value is not accepted)
DigitRun(value) ==
    Cardinality({k \in 1..Len(value) : \A j \in 1..k : IsAsciiDigit(value[j])})

AcceptedScore(value) ==
    LET n == DigitRun(value)
    IN  IF /\ n >= 1
           /\ \A j \in 1..(n - 1) : value[j] = "0"
           /\ value[n] \in {"1", "2", "3", "4", "5"}
        THEN CHOOSE score \in MIN_SCORE..MAX_SCORE : DigitChars[score + 1] = value[n]
        ELSE 0

LastLine == Unwrap(report.last)

\* C21: a line of importance, conciseness or accuracy whose key was not
\* read before stores the number of the leading digit run of its value when
\* that number lies in 1..5, and otherwise makes parse_evaluation return
\* InvalidValue with that field and value; an Ok result holds only scores
\* in 1..5.
ScoreValidation ==
    report.call = "parse_evaluation" =>
        /\ (IsSome(report.last) /\ ~report.ended
                /\ LastLine.field \in ScoreFields /\ ~LastLine.repeated) =>
               IF AcceptedScore(LastLine.value) # 0
               THEN /\ report.result = None
                    /\ report.fields[LastLine.field] = Some(AcceptedScore(LastLine.value))
               ELSE report.result = Some(Err(InvalidValue(LastLine.field, LastLine.value)))
        /\ \A field \in ScoreFields :
               IsSome(report.fields[field]) =>
                   Unwrap(report.fields[field]) \in MIN_SCORE..MAX_SCORE
        /\ (IsSome(report.result) /\ Unwrap(report.result).ok) =>
               LET x == Unwrap(Unwrap(report.result).value)
               IN  /\ x.importance \in MIN_SCORE..MAX_SCORE
                   /\ x.conciseness \in MIN_SCORE..MAX_SCORE
                   /\ x.accuracy \in MIN_SCORE..MAX_SCORE

ScoreValidationWitness ==
    /\ report.call = "parse_evaluation"
    /\ report.fields.importance = Some(MAX_SCORE)
    /\ report.fields.appropriate = Some(TRUE)
    /\ report.last = Some([field |-> "conciseness", value |-> << "1", "0" >>,
                           repeated |-> FALSE])
    /\ report.result = Some(Err(InvalidValue("conciseness", << "1", "0" >>)))


AllFields == {FieldNames[i] : i \in 1..Len(FieldNames)}

\* the values the arm of the field takes
ValidValue(field, value) ==
    CASE field = "appropriate" -> StartsWith(value, YES) \/ StartsWith(value, NO)
      [] field \in ScoreFields -> AcceptedScore(value) # 0
      [] field \in {"improvement1", "improvement2", "improvement3"} -> TRUE
      [] field = "overall" -> StartsWith(value, PASS) \/ StartsWith(value, FAIL)

ReturnedOk == IsSome(report.result) /\ Unwrap(report.result).ok

\* C22: after lines that were all valid and unique, a line whose key was
\* read before makes parse_evaluation return DuplicateField of that key; a
\* response that ends with exactly one key never read, the others read once
\* with valid values, returns MissingField of that key; and Ok is returned
\* only at the end of a response in which every key was read, no line
\* repeating a key or carrying a value its arm rejects.
DuplicateAndMissingField ==
    report.call = "parse_evaluation" =>
        /\ (IsSome(report.last) /\ ~report.ended /\ LastLine.repeated) =>
               report.result = Some(Err(DuplicateField(LastLine.field)))
        /\ \A field \in AllFields :
               (report.ended /\ report.fed = AllFields \ {field}) =>
                   report.result = Some(Err(MissingField(field)))
        /\ (IsSome(report.last) /\ ~report.ended
                /\ ~ValidValue(LastLine.field, LastLine.value)) =>
               IsSome(report.result) /\ ~Unwrap(report.result).ok
        /\ ReturnedOk => report.ended /\ report.fed = AllFields

DuplicateAndMissingFieldWitness ==
    /\ report.call = "parse_evaluation"
    /\ report.fed = AllFields \ {"appropriate"}
    /\ report.last = Some([field |-> "improvement2", value |-> NoImprovement,
                           repeated |-> TRUE])
    /\ report.result = Some(Err(DuplicateField("improvement2")))


\* C23: when the response of the evaluation request does not parse, the
\* Evaluate action completes, the session goes on, and the attempt it
\* records is failed and carries no evaluation scores.
ParseErrorsRecordedAsFailed ==
    (op = "append" /\ ~ParseEvaluation(app.evaluation_text).ok) =>
        /\ pc = "handle_events" /\ ~app.should_quit /\ ~app.is_evaluating
        /\ ~LastResult.passed
        /\ LastResult.evaluation = None


\* the log stats.json holds; none before the first save
PersistedLog == IF IsSome(disk) THEN Doc.results ELSE << >>

\* C24: as long as no save has failed, the log in stats.json is a prefix of
\* the log in memory and at most one attempt shorter, and whenever the loop
\* is back at its key events after an attempt, stats.json holds the whole
\* aggregate as it is in memory.
PersistenceFollowsAppend ==
    faults = 0 =>
        /\ IsPrefix(PersistedLog, stats.results)
        /\ Len(stats.results) - Len(PersistedLog) <= 1
        /\ (KeyEventsPolled /\ stats.results # << >>) => disk = Some(stats)

PersistenceFollowsAppendWitness ==
    /\ faults = 0
    /\ op = "append"
    /\ Len(stats.results) >= 2
    /\ KeyEventsPolled
    /\ disk = Some(stats)


\* C25: an attempt whose save fails leaves the loop running at its key
\* events with should_quit false, the attempt in the log and the streak
\* counted from it, stats.json as it was and the warning as status message;
\* and no step other than recording an attempt writes stats.json or changes
\* the aggregate in memory.
FailedSaveNonFatal ==
    [][/\ (op' = "append" /\ ~idle'.saved) =>
              /\ pc' = "handle_events"
              /\ ~app'.should_quit
              /\ app'.status_message = "Warning: Failed to save stats"
              /\ app'.view_mode = app.view_mode /\ app'.is_editing = app.is_editing
              /\ Len(stats'.results) = Len(stats.results) + 1
              /\ IsPrefix(stats.results, stats'.results)
              /\ stats'.current_streak = TrailingCount(stats'.results)
              /\ IsSome(stats'.last_training_date)
              /\ disk' = disk
       /\ (op' = "append" /\ idle'.saved) =>
              app'.status_message # "Warning: Failed to save stats"
       /\ op' # "append" => (disk' = disk /\ stats' = stats)]_vars

FailedSaveNonFatalWitness ==
    /\ op = "key"
    /\ faults = 1
    /\ KeyEventsPolled
    /\ ~app.should_quit
    /\ app.status_message = "Warning: Failed to save stats"
    /\ stats.results # << >>
    /\ disk = None


\* C26: a start that finds stats.json missing, or cannot read or
\* deserialize it, goes on with a fresh aggregate: empty log, no badges,
\* streak 0, buddy of level 1 with exp 0, no last_training_date.
LoadNeverAborts ==
    op = "load_new" =>
        /\ stats.results = << >>
        /\ stats.badges = << >>
        /\ stats.current_streak = 0
        /\ stats.buddy = [level |-> 1, exp |-> 0]
        /\ stats.last_training_date = None

LoadNeverAbortsWitness ==
    /\ op = "load_new"
    /\ IsSome(disk)
    /\ Doc.current_streak >= BADGE_INTERVAL
    /\ Doc.badges # << >>
    /\ stats.results = << >>


\* the aggregate is up to date with its log: the streak, the buddy, the
\* date of the last training and, while no attempt has failed, the badges
UpToDateWithLog(s) ==
    /\ s.current_streak = TrailingCount(s.results)
    /\ s.buddy = BuddyOfPasses(TotalCorrect(s.results))
    /\ s.results # << >> =>
           s.last_training_date = Some(s.results[Len(s.results)].timestamp)
    /\ AllPassed(s.results) =>
           /\ Thresholds(s.badges, "ConsecutiveStreak") = MultiplesUpTo(Len(s.results))
           /\ Thresholds(s.badges, "CumulativeMilestone") = MultiplesUpTo(Len(s.results))

\* C27: at every point where the screen is drawn, a key event is handled
\* or the aggregate is saved, the streak, badges, buddy and
\* last_training_date are up to date with the log, and so is every saved
\* document; while an evaluate request is in flight no key event is handled
\* and the only step is the arrival of its response.
AttemptIsAtomic ==
    /\ [](/\ UpToDateWithLog(stats)
          /\ IsSome(disk) => UpToDateWithLog(Doc)
          /\ app.is_evaluating <=> pc = "evaluate_summary")
    /\ [][/\ app.is_evaluating => (op' \in {"append", "error"} /\ ~app'.is_evaluating)
          /\ op' = "key" => (pc = "handle_events" /\ ~app.is_evaluating)
          /\ stats' # stats => (app.is_evaluating /\ op' = "append")]_vars

AttemptIsAtomicWitness ==
    /\ op = "append"
    /\ Len(stats.results) = BADGE_INTERVAL
    /\ HasBadge(stats.badges, ConsecutiveStreak(BADGE_INTERVAL))
    /\ HasBadge(stats.badges, CumulativeMilestone(BADGE_INTERVAL))
    /\ stats.buddy = [level |-> 2, exp |-> 0]
    /\ disk = Some(stats)
    /\ ~app.is_evaluating


\* the number of attempts with the given timestamp and outcome
StampedAt(results, t, passed) ==
    Cardinality({j \in 1..Len(results) :
                   results[j].timestamp = t /\ results[j].passed = passed})

\* C28: calculate_weekly_stats(weeks, now) returns weeks entries numbered
\* 1..weeks in ascending order; the entries together count no more correct
\* and no more incorrect attempts than the log holds; the attempts stamped
\* exactly now are counted in the last entry and those stamped exactly
\* 7 days before now in the second-to-last.
WeeklyEntries ==
    report.call = "calculate_weekly_stats" =>
        LET weeks == report.weeks
            result == report.result
        IN  /\ Len(result) = weeks
            /\ \A i \in 1..weeks : result[i].week_number = i
            /\ SumScores([i \in 1..weeks |-> result[i].correct])
                   <= TotalCorrect(stats.results)
            /\ SumScores([i \in 1..weeks |-> result[i].incorrect])
                   <= NumFails(stats.results)
            /\ weeks >= 1 =>
                   /\ result[weeks].correct >= StampedAt(stats.results, now, TRUE)
                   /\ result[weeks].incorrect >= StampedAt(stats.results, now, FALSE)
            /\ weeks >= 2 =>
                   /\ result[weeks - 1].correct
                          >= StampedAt(stats.results, now - WeekTicks, TRUE)
                   /\ result[weeks - 1].incorrect
                          >= StampedAt(stats.results, now - WeekTicks, FALSE)

WeeklyEntriesWitness ==
    /\ report.call = "calculate_weekly_stats"
    /\ report.weeks = 2
    /\ StampedAt(stats.results, now, TRUE) = 1
    /\ StampedAt(stats.results, now - WeekTicks, FALSE) = 1
    /\ report.result[2] = WeeklyStats(2, 1, 0)
    /\ report.result[1] = WeeklyStats(1, 0, 1)


\* less than PENALTY_DAYS whole days lie between the time and now, also
\* when the time is later than now
WithinPenaltyDays(t) == now - t < PENALTY_DAYS * TicksPerDay

\* C29: the decay check of a load leaves the buddy level, the buddy exp and
\* last_training_date of the document as they are when last_training_date
\* is absent or less than 3 whole days before now (or after now), and so
\* whenever the latest attempt of the log is less than 3 days old.
DecayNoOp ==
    [][op' = "load" =>
          /\ (~IsSome(Doc.last_training_date)
                  \/ WithinPenaltyDays(Unwrap(Doc.last_training_date))) =>
                 /\ stats'.buddy = Doc.buddy
                 /\ stats'.last_training_date = Doc.last_training_date
          /\ (Doc.results # << >>
                  /\ WithinPenaltyDays(Doc.results[Len(Doc.results)].timestamp)) =>
                 stats'.buddy = Doc.buddy]_vars

DecayNoOpWitness ==
    /\ op = "load"
    /\ IsSome(Doc.last_training_date)
    /\ Unwrap(Doc.last_training_date) > now
    /\ now >= PENALTY_DAYS * TicksPerDay
    /\ Doc.buddy.level > 1 /\ Doc.buddy.exp > 0
    /\ stats.buddy = Doc.buddy
    /\ stats.last_training_date = Doc.last_training_date


\* C30: an append raises the buddy level by 1 or not at all, whatever exp
\* the buddy held; the decay check of a load lowers the level of the
\* document by 1 or not at all; no other step changes the level.
LevelSingleSteps ==
    [][/\ op' = "append" => stats'.buddy.level - stats.buddy.level \in {0, 1}
       /\ op' = "load" => Doc.buddy.level - stats'.buddy.level \in {0, 1}
       /\ op' \notin {"append", "load"} => stats'.buddy.level = stats.buddy.level]_vars

LevelSingleStepsWitness ==
    /\ op = "append"
    /\ Len(stats.results) > 0
    /\ Doc.results[Len(Doc.results)].passed
    /\ Len(stats.results) = DEFAULT_REQUIRED_EXP + 3
    /\ stats.buddy = [level |-> 3, exp |-> 0]


\* C31: for every log and every badge list the aggregate starts with,
\* rebuild_badges_from_history run twice leaves the badge list that one run
\* leaves: the same badges with the same earned_at in the same order.
RebuildIdempotent ==
    report.call = "rebuild_badges_from_history" =>
        /\ Len(report.twice) = Len(report.once)
        /\ \A i \in 1..Len(report.once) :
               /\ report.twice[i].badge_type = report.once[i].badge_type
               /\ report.twice[i].earned_at = report.once[i].earned_at

RebuildIdempotentWitness ==
    /\ report.call = "rebuild_badges_from_history"
    /\ stats.badges = << Badge(CumulativeMilestone(BADGE_INTERVAL), 0) >>
    /\ Len(stats.results) = BADGE_INTERVAL + 1
    /\ ~stats.results[1].passed
    /\ Len(report.once) = 2
    /\ report.once[2] = Badge(ConsecutiveStreak(BADGE_INTERVAL), BADGE_INTERVAL + 1)
    /\ report.twice = report.once


\* the rectangle keeps OVERLAY_MARGIN cells of the area free on every side
KeepsMargins(full, overlay) ==
    /\ overlay.x >= full.x + OVERLAY_MARGIN
    /\ overlay.y >= full.y + OVERLAY_MARGIN
    /\ overlay.x + overlay.width <= full.x + full.width - OVERLAY_MARGIN
    /\ overlay.y + overlay.height <= full.y + full.height - OVERLAY_MARGIN

LongestStreak(results) ==
    LET n == Len(results)
        stops == {0, n + 1} \cup {i \in 1..n : ~results[i].passed}
    IN  CHOOSE gap \in 0..n :
            /\ \E i, j \in stops :
                   /\ i < j
                   /\ j - i - 1 = gap
            /\ \A i, j \in stops :
                   (i < j /\ \A k \in stops : ~(i < k /\ k < j)) => j - i - 1 <= gap
            /\ \E i, j \in stops :
                   /\ i < j
                   /\ \A k \in stops : ~(i < k /\ k < j)
                   /\ j - i - 1 = gap

\* C33: after any sequence of appends on a fresh aggregate the cumulative
\* thresholds held are exactly the multiples of 5 up to min(total passed, 100)
\* and the streak thresholds exactly the multiples of 5 up to
\* min(longest streak ever reached, 50); the list holds at most 30 badges.
BadgesAreFunctionOfHistory ==
    /\ Thresholds(stats.badges, "CumulativeMilestone") =
          MultiplesUpTo(Min(TotalCorrect(stats.results), MAX_CUMULATIVE_MILESTONE))
    /\ Thresholds(stats.badges, "ConsecutiveStreak") =
          MultiplesUpTo(Min(LongestStreak(stats.results), MAX_CONSECUTIVE_STREAK))
    /\ \A i \in 1..Len(stats.badges) :
          /\ IsMultipleOf(stats.badges[i].badge_type.n, BADGE_INTERVAL)
          /\ stats.badges[i].badge_type.n <=
                (IF stats.badges[i].badge_type.variant = "ConsecutiveStreak"
                 THEN MAX_CONSECUTIVE_STREAK ELSE MAX_CUMULATIVE_MILESTONE)
    /\ Len(stats.badges) <= MAX_CONSECUTIVE_STREAK \div BADGE_INTERVAL
                            + MAX_CUMULATIVE_MILESTONE \div BADGE_INTERVAL

BadgesAreFunctionOfHistoryWitness ==
    /\ op = "append"
    /\ NumFails(stats.results) = 1
    /\ Len(stats.results) > MAX_CUMULATIVE_MILESTONE
    /\ ~stats.results[MAX_CONSECUTIVE_STREAK + 3].passed
    /\ TotalCorrect(stats.results) > MAX_CUMULATIVE_MILESTONE
    /\ stats.current_streak > MAX_CONSECUTIVE_STREAK
    /\ Len(stats.badges) = 30


\* C34: in every state reached from a fresh aggregate by appends and decay
\* checks the buddy's level is at least 1 and its exp is strictly below the
\* threshold of its level (10 at level 2, 5 at every other level).
BuddyBelowThreshold ==
    /\ stats.buddy.level >= 1
    /\ stats.buddy.exp >= 0
    /\ stats.buddy.exp < (IF stats.buddy.level = 2 THEN 10 ELSE 5)
    /\ IsSome(disk) =>
          /\ Doc.buddy.level >= 1
          /\ Doc.buddy.exp < (IF Doc.buddy.level = 2 THEN 10 ELSE 5)

\* a level 2 buddy with more exp than level 1 allows has just decayed
BuddyBelowThresholdWitness ==
    /\ op = "load"
    /\ Doc.buddy.level = 2
    /\ Doc.buddy.exp >= DEFAULT_REQUIRED_EXP
    /\ IsSome(Doc.last_training_date)
    /\ PenaltyApplies(Unwrap(Doc.last_training_date), now)
    /\ stats.buddy = [level |-> 1, exp |-> 0]


\* C35: when the evaluate request fails no attempt is recorded: the
\* aggregate and stats.json are as before and save is not called; the
\* overlay shows the error text, evaluation_passed is false and
\* is_evaluating is false again.
FailedRequestRecordsNothing ==
    [][(pc = "evaluate_summary" /\ op' = "error") =>
          /\ stats' = stats
          /\ disk' = disk
          /\ faults' = faults
          /\ app.is_evaluating
          /\ app'.show_evaluation_overlay
          /\ app'.evaluation_text = << "Error" >>
          /\ ~app'.evaluation_passed
          /\ ~app'.is_evaluating]_vars

\* a request failed after an attempt that had passed
FailedRequestRecordsNothingWitness ==
    /\ op = "error"
    /\ pc = "handle_events"
    /\ NumRecent(stats.results) > 0
    /\ stats.current_streak = BADGE_INTERVAL
    /\ LastResult.passed
    /\ app.show_evaluation_overlay
    /\ ~app.evaluation_passed
    /\ ~app.is_evaluating


\* the keys that act in the normal mode and are text while editing
ViewKeys == {"r", "h", "q", "e", "n"}

\* C36: in every reachable state is_editing implies view_mode = Normal and
\* a hidden overlay; editing is entered only from the Normal view with the
\* overlay hidden; while editing the keys r, h, q, e and n go to the text
\* area and change neither the view mode, the overlay nor should_quit.
EditingModeInvariant ==
    /\ [](app.is_editing =>
            /\ app.view_mode = "Normal"
            /\ ~app.show_evaluation_overlay
            /\ \A key \in ViewKeys :
                  LET handled == HandleEvents(app, key)
                  IN  /\ handled.action = None
                      /\ handled.app = [app EXCEPT !.text_area = TextAreaHandle(@, key)])
    /\ [][(~app.is_editing /\ app'.is_editing) =>
             /\ app.view_mode = "Normal"
             /\ ~app.show_evaluation_overlay
             /\ pc = "handle_events"]_vars

\* editing again after an evaluation, the overlay toggled away with e
EditingModeInvariantWitness ==
    /\ op = "key"
    /\ app.is_editing
    /\ app.evaluation_text # << >>
    /\ app.text_area # << >>
    /\ Len(stats.results) > 0


\* C37: an Evaluate action is emitted only from editing mode, on Ctrl+S, when
\* the summary is not blank, and emitting it leaves editing mode; so no
\* attempt is appended for an empty or whitespace-only summary, and each
\* Evaluate action appends at most one attempt.
EvaluateOnlyForSummary ==
    /\ [](pc = "handle_events" =>
            \A key \in KeyCodes :
                HandleEvents(app, key).action = Some("Evaluate") =>
                    /\ key = "Ctrl+s"
                    /\ app.is_editing
                    /\ ~IsBlank(app.text_area)
                    /\ ~HandleEvents(app, key).app.is_editing)
    /\ [][(pc # "evaluate_summary" /\ pc' = "evaluate_summary") =>
             /\ pc = "handle_events"
             /\ app.is_editing
             /\ ~IsBlank(app.text_area)
             /\ ~app'.is_editing
             /\ app'.text_area = app.text_area
             /\ stats' = stats]_vars
    /\ [][stats'.results # stats.results =>
             /\ pc = "evaluate_summary"
             /\ pc' = "handle_events"
             /\ ~IsBlank(app.text_area)
             /\ Len(stats'.results) = Len(stats.results) + 1
             /\ IsPrefix(stats.results, stats'.results)]_vars

\* the second attempt of a session has just been recorded
EvaluateOnlyForSummaryWitness ==
    /\ op = "append"
    /\ pc = "handle_events"
    /\ NumRecent(stats.results) > 1
    /\ ~IsBlank(app.text_area)
    /\ ~app.is_editing


\* C38: the three score statistics of an evaluation summary are present
\* together exactly when count > 0 and absent together exactly when
\* count = 0, so the unwraps render_evaluation_summary takes when
\* count # 0 find a value.
SummaryStatsPresentTogether ==
    report.call = "get_recent_evaluation_summary" =>
        LET summary == report.result
            present == {IsSome(summary.importance), IsSome(summary.conciseness),
                        IsSome(summary.accuracy)}
        IN  /\ summary.count >= 0
            /\ present = {summary.count > 0}
            /\ summary.count # 0 =>
                  /\ summary.importance # None
                  /\ summary.conciseness # None
                  /\ summary.accuracy # None

\* one of two recent attempts carries an evaluation
SummaryStatsPresentTogetherWitness ==
    /\ report.call = "get_recent_evaluation_summary"
    /\ Len(stats.results) = 2
    /\ report.result.count = 1
    /\ IsSome(report.result.accuracy)
    /\ \E i \in 1..2 : stats.results[i].evaluation = None /\ stats.results[i].timestamp = now


\* the order in which the result is built from the fields
CanonicalOrder ==
    << "appropriate", "importance", "conciseness", "accuracy",
       "improvement1", "improvement2", "improvement3", "overall" >>

\* C39: the first offending line decides the error of parse_evaluation; a
\* repeated key yields DuplicateField even when its value is invalid; an
\* error of the scan comes before any MissingField; and at the end of the
\* lines MissingField names the first key of the canonical order that was
\* never read.
ErrorPrecedence ==
    report.call = "parse_evaluation" =>
        /\ (IsSome(report.last) /\ ~report.ended) =>
               report.result =
                   (IF LastLine.repeated
                    THEN Some(Err(DuplicateField(LastLine.field)))
                    ELSE IF ~ValidValue(LastLine.field, LastLine.value)
                    THEN Some(Err(InvalidValue(LastLine.field, LastLine.value)))
                    ELSE None)
        /\ (IsSome(report.result) /\ ~Unwrap(report.result).ok
                /\ Unwrap(Unwrap(report.result).error).kind = "MissingField") =>
               report.ended
        /\ (report.ended /\ report.fed # AllFields) =>
               \E i \in 1..Len(CanonicalOrder) :
                   /\ CanonicalOrder[i] \notin report.fed
                   /\ \A j \in 1..(i - 1) : CanonicalOrder[j] \in report.fed
                   /\ report.result = Some(Err(MissingField(CanonicalOrder[i])))

\* a score is repeated with a value out of range while other keys are missing
ErrorPrecedenceWitness ==
    /\ report.call = "parse_evaluation"
    /\ report.fed = {"overall", "accuracy"}
    /\ report.last = Some([field |-> "accuracy", value |-> << "6" >>, repeated |-> TRUE])
    /\ report.result = Some(Err(DuplicateField("accuracy")))

====
